---- MODULE Spec2Model ----
(***************************************************************************)
(* A model of torsh, a terminal client of the Transmission daemon.         *)
(*                                                                         *)
(*   client.py   TransmissionController: _rpc (bounded retries), and       *)
(*               _map_torrent (the percentage derivation)                  *)
(*   config.py   normalize / _to_payload / _merge_config / load / save     *)
(*   daemon.py   _pick_free_port, maybe_start_daemon,                      *)
(*               _write_settings_ports                                     *)
(*   ui/app.py   TorshApp: refresh_all, _check_connection,                 *)
(*               _refresh_torrents, _render_table, the operator actions    *)
(*               and the modal screens                                     *)
(*                                                                         *)
(* Each component has its own variables and its own specification; a       *)
(* specification keeps the variables of the other components at their idle *)
(* values.                                                                 *)
(*                                                                         *)
(* Numbers. Python floats are modelled in fixed point: a fraction or a     *)
(* percentage x is the integer x * Hundred. Optional values (None or a     *)
(* value) are the sets {} and {v}.                                         *)
(***************************************************************************)
EXTENDS Integers, Sequences, FiniteSets, TLC

VARIABLES
    \* client.py, _map_torrent
    rec, view,
    \* daemon.py, _pick_free_port
    ppStart, ppOcc, ppPort, ppI, ppProbed, ppState, ppRet,
    \* client.py, _rpc
    rpcRetries, rpcAttempts, rpcAttempt, rpcDelay, rpcLastError, rpcClient,
    rpcMade, rpcPc, rpcLog, rpcOut, rpcOther,
    \* client.py, _call: the timer asyncio.wait_for sets for the call
    rpcDeadline,
    \* config.py, save_config and load_config
    cfg, cfgFile, cfgWrites, cfgLoaded, cfgLoaded2, cfgPc,
    \* config.py, load_config over a file of any content: the kinds of the
    \* values the file holds, and how far the call has come
    cfgDoc,
    \* ui/app.py: the application object, the coroutines in flight, the
    \* daemon they talk to, and what an observer of the run has counted
    app, ctx, daemon, obs,
    \* daemon.py, maybe_start_daemon: the call, its environment (processes,
    \* ports, settings.json) and what it has done
    sup,
    \* ui/app.py, _render_table over one row that is already shown: the
    \* snapshot cached for it, the snapshot of the new poll, the cells pushed
    rowCached, rowSnapshot, rowPushed

mapVars  == <<rec, view>>
portVars == <<ppStart, ppOcc, ppPort, ppI, ppProbed, ppState, ppRet>>
rpcVars  == <<rpcRetries, rpcAttempts, rpcAttempt, rpcDelay, rpcLastError, rpcClient,
              rpcMade, rpcPc, rpcLog, rpcOut, rpcOther, rpcDeadline>>
cfgVars  == <<cfg, cfgFile, cfgWrites, cfgLoaded, cfgLoaded2, cfgPc, cfgDoc>>
appVars  == <<app, ctx, daemon, obs>>
supVars  == <<sup>>
rowVars  == <<rowCached, rowSnapshot, rowPushed>>
vars     == <<mapVars, portVars, rpcVars, cfgVars, appVars, supVars, rowVars>>

\* what the actions of one component leave alone
notMap  == <<portVars, rpcVars, cfgVars, appVars, supVars, rowVars>>
notPort == <<mapVars, rpcVars, cfgVars, appVars, supVars, rowVars>>
notRpc  == <<mapVars, portVars, cfgVars, appVars, supVars, rowVars>>
notCfg  == <<mapVars, portVars, rpcVars, appVars, supVars, rowVars>>
notApp  == <<mapVars, portVars, rpcVars, cfgVars, supVars, rowVars>>
notSup  == <<mapVars, portVars, rpcVars, cfgVars, appVars, rowVars>>
notRow  == <<mapVars, portVars, rpcVars, cfgVars, appVars, supVars>>

\* ------------------------------------------------------------------------
\* Optional values and Python truthiness
\* ------------------------------------------------------------------------
None == {}

Some(v) == {v}

IsNone(o) == o = {}

Val(o) == CHOOSE v \in o : TRUE

\* bool(x) of an optional number: None and 0 are falsy
Truthy(o) == o # {} /\ o # {0}

\* Python's  a or b
PyOr(a, b) == IF Truthy(a) THEN a ELSE b

Max(a, b) == IF a >= b THEN a ELSE b

Min(a, b) == IF a <= b THEN a ELSE b

\* ------------------------------------------------------------------------
\* client.py: the percentage derivation of _map_torrent
\* ------------------------------------------------------------------------
\* the literal 100.0; also the fixed-point unit (1.0 is Hundred)
Hundred == 100

\* how many halves of the torrent size the sampled leftUntilDone values span
MaxLeftHalves == 3

\* _as_float: None stays None, a number is itself
as_float(o) == o

\* the fields _map_torrent reads from a daemon record, each None or a number
\* (fractions in fixed point, sizes in bytes)
FractionValues ==
    {None, Some(0 - (Hundred \div 2)), Some(0), Some(Hundred \div 2), Some(Hundred),
     Some(Hundred + (Hundred \div 2)), Some(Hundred * Hundred),
     Some((Hundred + (Hundred \div 2)) * Hundred)}

ProgressValues == {None, Some(0), Some(Hundred \div 4), Some(75 * Hundred)}

SizeValues == {None, Some(0), Some(4)}

LeftValues == {None} \cup {Some(2 * k) : k \in 0..MaxLeftHalves}

Records ==
    [percentDone : FractionValues, progress : ProgressValues,
     sizeWhenDone : SizeValues, size_when_done : {None, Some(4)},
     leftUntilDone : LeftValues, left_until_done : {None, Some(1)}]

\* the mutant of the clamp: the upper limit alone
clamp_upper_only(x) == Min(Hundred * Hundred, x)

\* max(0.0, min(100.0, x)) on percentages in fixed point
clamp_percent(x) == Max(0, Min(Hundred * Hundred, x))

\* lines 224-239: percent_done of the TorrentView, in fixed point
map_percent(t) ==
    LET raw0 == as_float(t.percentDone)
        raw_percent == IF IsNone(raw0)
                         THEN Val(PyOr(as_float(t.progress), Some(0)))
                         ELSE Val(raw0)
        size_when_done == as_float(PyOr(t.sizeWhenDone, t.size_when_done))
        left_until_done == as_float(PyOr(t.leftUntilDone, t.left_until_done))
    IN  IF ~IsNone(size_when_done) /\ Val(size_when_done) > 0 /\ ~IsNone(left_until_done)
          THEN clamp_percent(((Val(size_when_done) - Val(left_until_done)) * Hundred * Hundred)
                               \div Val(size_when_done))
          ELSE IF raw_percent <= Hundred THEN raw_percent * Hundred ELSE raw_percent

MapIdle == rec = None /\ view = None

MapInit == rec \in {Some(r) : r \in Records} /\ view = None

\* list_torrents maps one record of the daemon's answer
MapTorrent ==
    /\ rec # None /\ view = None
    /\ view' = Some(map_percent(Val(rec)))
    /\ UNCHANGED <<rec, notMap>>

\* ------------------------------------------------------------------------
\* daemon.py: _pick_free_port
\* ------------------------------------------------------------------------
\* attempts: int = 10
Attempts == 10

\* the largest port bind() accepts; a larger one makes it raise OverflowError
PortMax == 65535

\* how far below PortMax the sampled start ports reach
TopWindow == 1

\* the start ports sampled: the default RPC port and the top of the range
StartPorts == {9091, PortMax - Attempts, (PortMax - Attempts) + 1} \cup ((PortMax - TopWindow)..PortMax)

\* the ports an occupancy is drawn over: the ten candidates of a start port
Candidates(p) == Max(1, p)..(Max(1, p) + Attempts - 1)

PortIdle ==
    /\ ppStart = 0 /\ ppOcc = {} /\ ppPort = 0 /\ ppI = 0
    /\ ppProbed = <<>> /\ ppState = "idle" /\ ppRet = 0

\* the call: port = max(1, start), before the first pass of the loop
PickFreePort ==
    /\ ppState = "idle"
    /\ \E p \in StartPorts : \E occ \in SUBSET Candidates(p) :
          /\ ppStart' = p
          /\ ppOcc' = occ
          /\ ppPort' = Max(1, p)
    /\ ppI' = 0 /\ ppProbed' = <<>> /\ ppRet' = 0
    /\ ppState' = "loop"
    /\ UNCHANGED notPort

\* s.bind(("0.0.0.0", port)) succeeds: return port
BindOk ==
    /\ ppState = "loop" /\ ppI < Attempts
    /\ ppPort <= PortMax /\ ppPort \notin ppOcc
    /\ ppProbed' = Append(ppProbed, ppPort)
    /\ ppRet' = ppPort
    /\ ppState' = "returned"
    /\ UNCHANGED <<ppStart, ppOcc, ppPort, ppI, notPort>>

\* s.bind raises OSError: port += 1 and the next pass
BindBusy ==
    /\ ppState = "loop" /\ ppI < Attempts
    /\ ppPort <= PortMax /\ ppPort \in ppOcc
    /\ ppProbed' = Append(ppProbed, ppPort)
    /\ ppPort' = ppPort + 1
    /\ ppI' = ppI + 1
    /\ UNCHANGED <<ppStart, ppOcc, ppState, ppRet, notPort>>

\* s.bind with a port above 65535 raises OverflowError, which is no OSError:
\* it leaves _pick_free_port
BindOverflow ==
    /\ ppState = "loop" /\ ppI < Attempts
    /\ ppPort > PortMax
    /\ ppProbed' = Append(ppProbed, ppPort)
    /\ ppState' = "raised"
    /\ UNCHANGED <<ppStart, ppOcc, ppPort, ppI, ppRet, notPort>>

\* the loop ran out: return start
BindExhausted ==
    /\ ppState = "loop" /\ ppI >= Attempts
    /\ ppRet' = ppStart
    /\ ppState' = "returned"
    /\ UNCHANGED <<ppStart, ppOcc, ppPort, ppI, ppProbed, notPort>>

\* ------------------------------------------------------------------------
\* client.py: TransmissionController._rpc, one call
\* ------------------------------------------------------------------------
\* retries: int = 2 of __init__
DefaultRetries == 2

\* backoff: float = 0.6 of __init__, in microseconds
DefaultDelay == 600000

\* the cap 5.0 of the backoff, in microseconds
DelayCap == 5000000

\* the largest retries argument sampled
MaxRetries == 3

\* how many clients the calls in flight construct at most
MaxMade == 5

\* the mutant of the handlers of lines 69-76: self.reset() left out
keep_client(client) == client

\* self.reset() in the handlers of lines 69-76
reset_client(client) == None

\* the mutant of the attempt count: the retries alone
rpc_attempts_without_first(retries) == IF IsNone(retries) THEN Max(0, DefaultRetries) ELSE Val(retries)

\* line 61: attempts = (self._default_retries if retries is None else retries) + 1
rpc_attempts(retries) == (IF IsNone(retries) THEN Max(0, DefaultRetries) ELSE Val(retries)) + 1

\* the mutant of line 80: no cap
next_delay_uncapped(delay) == (delay * 16) \div 10

\* line 80: delay = min(delay * 1.6, 5.0)
next_delay(delay) == Min((delay * 16) \div 10, DelayCap)

\* the error an attempt ends with: its class and the attempt that raised it
Err(class, n) == [class |-> class, attempt |-> n]

RpcIdle ==
    /\ rpcRetries = None /\ rpcAttempts = 0 /\ rpcAttempt = 0 /\ rpcDelay = 0
    /\ rpcLastError = None /\ rpcClient = None /\ rpcMade = 0
    /\ rpcPc = "idle" /\ rpcLog = <<>> /\ rpcOut = None /\ rpcOther = FALSE
    /\ rpcDeadline = "unset"

\* a controller between calls: a client may be cached from an earlier call
RpcInit ==
    /\ rpcRetries = None /\ rpcAttempts = 0 /\ rpcAttempt = 0 /\ rpcDelay = 0
    /\ rpcLastError = None /\ rpcClient \in {None, Some(0)} /\ rpcMade = 0
    /\ rpcPc = "idle" /\ rpcLog = <<>> /\ rpcOut = None /\ rpcOther = FALSE
    /\ rpcDeadline = "unset"

\* the largest retries argument of the calls that follow the backoff up to
\* its cap
BackoffRetries == 7

\* lines 61-63 and the loop test, for the retries argument r
rpc_call(r) ==
    /\ rpcRetries' = r
    /\ rpcAttempts' = rpc_attempts(r)
    /\ rpcAttempt' = 0
    /\ rpcDelay' = Max(100000, DefaultDelay)
    /\ rpcLastError' = None
    \* range(attempts) is empty for attempts <= 0: line 84 raises
    /\ rpcPc' = IF rpcAttempts' > 0 THEN "try" ELSE "raised"
    /\ rpcOut' = IF rpcAttempts' > 0 THEN rpcOut ELSE Some(Err("TransmissionError", 0 - 1))
    \* line 89: wait_for sets its timer and runs _rpc
    /\ rpcDeadline' = "armed"
    /\ UNCHANGED <<rpcClient, rpcMade, rpcLog, rpcOther, notRpc>>

\* the call with its retries argument
RpcCall ==
    /\ rpcPc = "idle"
    /\ \E r \in {None} \cup {Some(k) : k \in 0..MaxRetries} : rpc_call(r)

\* the call with many retries
RpcCallLong ==
    /\ rpcPc = "idle"
    /\ \E r \in {None} \cup {Some(k) : k \in (BackoffRetries - 1)..BackoffRetries} :
          rpc_call(r)

\* after a failed attempt (lines 78-80 and the loop test): sleep before the
\* next attempt, or leave the loop and raise last_error
rpc_after_failure == IF rpcAttempt < rpcAttempts - 1 THEN "sleep" ELSE "raised"

\* line 89, asyncio.wait_for: its timer can only act while _rpc is suspended
\* at an await (lines 68 and 79). A timer that ran out while the event loop
\* was held by synchronous code cancels _rpc at the await it reaches next:
\* CancelledError is not an Exception, so the handlers of lines 69-76 let it
\* through and wait_for raises TimeoutError.
at_await(pc) == IF rpcDeadline = "elapsed" THEN "timeout" ELSE pc

\* what the call has raised when it ends at pc
rpc_raised(pc, last_error, out) ==
    CASE pc = "timeout" -> Some(Err("TimeoutError", rpcAttempt))
      [] pc = "raised"  -> last_error
      [] OTHER          -> out

\* line 67 with a cached client, or with one the property constructs, then
\* line 68: the method starts in a worker thread
RpcInvoke ==
    /\ rpcPc = "try"
    /\ IF IsNone(rpcClient)
         THEN rpcClient' = Some(rpcMade + 1) /\ rpcMade' = rpcMade + 1
         ELSE UNCHANGED <<rpcClient, rpcMade>>
    /\ rpcLog' = Append(rpcLog, [client |-> rpcClient', invoked |-> TRUE, out |-> "pending"])
    /\ rpcPc' = at_await("thread")
    /\ rpcOut' = rpc_raised(rpcPc', rpcLastError, rpcOut)
    /\ UNCHANGED <<rpcRetries, rpcAttempts, rpcAttempt, rpcDelay, rpcLastError, rpcOther, rpcDeadline, notRpc>>

\* line 67: no client is cached and Client(...) raises; the handlers of
\* lines 69-76 record the error and reset
RpcClientFail ==
    /\ rpcPc = "try"
    /\ IsNone(rpcClient)
    /\ \E class \in {"TransmissionError", "Exception"} :
          /\ rpcLastError' = Some(Err(class, rpcAttempt))
          /\ rpcLog' = Append(rpcLog, [client |-> None, invoked |-> FALSE, out |-> class])
    /\ rpcClient' = reset_client(rpcClient)
    /\ rpcPc' = IF rpc_after_failure = "sleep" THEN at_await("sleep") ELSE "raised"
    /\ rpcOut' = rpc_raised(rpcPc', rpcLastError', rpcOut)
    /\ UNCHANGED <<rpcRetries, rpcAttempts, rpcAttempt, rpcDelay, rpcMade, rpcOther, rpcDeadline, notRpc>>

\* line 68: the worker thread returns the daemon's answer
RpcThreadOk ==
    /\ rpcPc = "thread"
    /\ rpcLog' = [rpcLog EXCEPT ![Len(rpcLog)].out = "ok"]
    /\ rpcOut' = Some([result |-> rpcAttempt])
    /\ rpcPc' = "returned"
    /\ UNCHANGED <<rpcRetries, rpcAttempts, rpcAttempt, rpcDelay, rpcLastError, rpcClient,
                   rpcMade, rpcOther, rpcDeadline, notRpc>>

\* lines 69-76: the method raised; last_error = exc, self.reset()
RpcThreadFail ==
    /\ rpcPc = "thread"
    /\ \E class \in {"TransmissionError", "Exception"} :
          /\ rpcLastError' = Some(Err(class, rpcAttempt))
          /\ rpcLog' = [rpcLog EXCEPT ![Len(rpcLog)].out = class]
    /\ rpcClient' = reset_client(rpcClient)
    /\ rpcPc' = rpc_after_failure
    /\ rpcOut' = IF rpc_after_failure = "raised" THEN rpcLastError' ELSE rpcOut
    /\ UNCHANGED <<rpcRetries, rpcAttempts, rpcAttempt, rpcDelay, rpcMade, rpcOther, rpcDeadline, notRpc>>

\* lines 79-80: the sleep is over, the delay grows, the next pass starts
RpcSleepDone ==
    /\ rpcPc = "sleep"
    /\ rpcDelay' = next_delay(rpcDelay)
    /\ rpcAttempt' = rpcAttempt + 1
    /\ rpcPc' = "try"
    /\ UNCHANGED <<rpcRetries, rpcAttempts, rpcLastError, rpcClient, rpcMade, rpcLog,
                   rpcOut, rpcOther, rpcDeadline, notRpc>>

\* line 89: the timer of wait_for runs out. With _rpc suspended at an await
\* the cancellation arrives at once; with the event loop held by Client(...)
\* of line 44 (the property constructs the client in the caller's context,
\* and the constructor asks the daemon for its session) it has to wait.
RpcDeadline ==
    /\ rpcDeadline = "armed"
    /\ \/ rpcPc \in {"thread", "sleep"}
       \/ rpcPc = "try" /\ IsNone(rpcClient)
    /\ rpcDeadline' = "elapsed"
    /\ rpcPc' = IF rpcPc = "try" THEN "try" ELSE "timeout"
    /\ rpcOut' = rpc_raised(rpcPc', rpcLastError, rpcOut)
    /\ UNCHANGED <<rpcRetries, rpcAttempts, rpcAttempt, rpcDelay, rpcLastError, rpcClient,
                   rpcMade, rpcLog, rpcOther, notRpc>>

\* Another call of _rpc is in flight beside this one (the gathered
\* _refresh_torrents and _refresh_stats, a key binding beside the timer):
\* it shares self._client.
RpcOtherCall ==
    /\ rpcPc \in {"try", "thread", "sleep"} /\ ~rpcOther
    /\ rpcOther' = TRUE
    /\ UNCHANGED <<rpcRetries, rpcAttempts, rpcAttempt, rpcDelay, rpcLastError, rpcClient,
                   rpcMade, rpcPc, rpcLog, rpcOut, rpcDeadline, notRpc>>

\* line 67 in the other call: no client is cached, the property constructs one
RpcOtherConstruct ==
    /\ rpcOther /\ IsNone(rpcClient) /\ rpcMade < MaxMade
    /\ rpcClient' = Some(rpcMade + 1) /\ rpcMade' = rpcMade + 1
    /\ UNCHANGED <<rpcRetries, rpcAttempts, rpcAttempt, rpcDelay, rpcLastError, rpcPc,
                   rpcLog, rpcOut, rpcOther, rpcDeadline, notRpc>>

\* lines 69-76 in the other call: its attempt failed, self.reset()
RpcOtherReset ==
    /\ rpcOther /\ ~IsNone(rpcClient)
    /\ rpcClient' = None
    /\ UNCHANGED <<rpcRetries, rpcAttempts, rpcAttempt, rpcDelay, rpcLastError, rpcMade,
                   rpcPc, rpcLog, rpcOut, rpcOther, rpcDeadline, notRpc>>

\* the other call returns or raises while this one goes on
RpcOtherEnd ==
    /\ rpcPc \in {"try", "thread", "sleep"} /\ rpcOther
    /\ rpcOther' = FALSE
    /\ UNCHANGED <<rpcRetries, rpcAttempts, rpcAttempt, rpcDelay, rpcLastError, rpcClient,
                   rpcMade, rpcPc, rpcLog, rpcOut, rpcDeadline, notRpc>>

\* ------------------------------------------------------------------------
\* config.py: normalize, _to_payload, _merge_config, load_config, save_config
\* ------------------------------------------------------------------------
\* Strings that are stripped are sequences of characters; a Path is the
\* record [path |-> its parts]; str(path) is the sequence of parts. Floats
\* are in tenths: timeout 1.0 is 10, refresh_interval 0.5 is 5.

\* max(1.0, ...) of RpcConfig.normalize, in tenths
TimeoutMin == 10

\* max(0.5, ...) of UIConfig.normalize, in tenths
RefreshMin == 5

\* min(30.0, ...) of UIConfig.normalize, in tenths
RefreshMax == 300

\* the default port 9091
DefaultPort == 9091

RECURSIVE lstrip(_)
lstrip(s) == IF s # <<>> /\ Head(s) = " " THEN lstrip(Tail(s)) ELSE s

RECURSIVE rstrip(_)
rstrip(s) == IF s # <<>> /\ s[Len(s)] = " " THEN rstrip(SubSeq(s, 1, Len(s) - 1)) ELSE s

\* str.strip()
strip(s) == rstrip(lstrip(s))

\* Path.expanduser(): a leading ~ becomes the home directory
expanduser(parts) == IF parts # <<>> /\ Head(parts) = "~" THEN <<"home">> \o Tail(parts) ELSE parts

\* Path(value).expanduser() of a str or a Path
Path(parts) == [path |-> parts]

\* _safe_bool of a bool: itself; of None: the default
safe_bool(value, default) == IF IsNone(value) THEN default ELSE Val(value)

\* _safe_int of an int or None, with its limits
safe_int(value, default, minimum, maximum) ==
    Min(maximum, Max(minimum, IF IsNone(value) THEN default ELSE Val(value)))

\* _safe_float of a number or None
safe_float(value, default) == IF IsNone(value) THEN default ELSE Val(value)

\* _safe_path of a str, a Path (both given by their parts) or None
safe_path(value, default) ==
    IF IsNone(value) THEN Path(expanduser(default.path)) ELSE Path(expanduser(Val(value)))

\* x or None of an optional string
OrNone(o) == IF IsNone(o) \/ o = Some(<<>>) THEN None ELSE o

\* CONFIG_DIR
ConfigDir == Path(<<"home", "torsh">>)

\* AppConfig() with no environment variable set
DefaultConfig ==
    [rpc |-> [host |-> <<"l", "h">>, port |-> DefaultPort, username |-> None,
              password |-> None, timeout |-> 100],
     daemon |-> [autostart |-> TRUE, binary |-> <<"t", "d">>, extra_args |-> <<>>,
                 install_missing |-> TRUE, restart_on_fail |-> TRUE,
                 log_path |-> Path(<<"home", "torsh", "log">>)],
     paths |-> [download_dir |-> Path(<<"home", "dl">>), config_dir |-> ConfigDir],
     ui |-> [refresh_interval |-> 25, sort_column |-> None, sort_desc |-> FALSE,
             filter_text |-> "", status_filter |-> "any", progress_filter |-> "any"]]

\* RpcConfig.normalize
rpc_normalize(r) ==
    [host |-> IF strip(r.host) # <<>> THEN strip(r.host) ELSE <<"l", "h">>,
     port |-> safe_int(Some(r.port), DefaultPort, 1, PortMax),
     username |-> OrNone(r.username),
     password |-> OrNone(r.password),
     timeout |-> Max(TimeoutMin, safe_float(Some(r.timeout), 100))]

\* the arguments of extra_args that are not blank, stripped
RECURSIVE strip_args(_)
strip_args(args) ==
    IF args = <<>> THEN <<>>
    ELSE IF strip(Head(args)) # <<>> THEN <<strip(Head(args))>> \o strip_args(Tail(args))
    ELSE strip_args(Tail(args))

\* DaemonConfig.normalize; a Path is always truthy, so log_path is kept
daemon_normalize(d, config_dir) ==
    [autostart |-> safe_bool(Some(d.autostart), TRUE),
     binary |-> IF strip(d.binary) # <<>> THEN strip(d.binary) ELSE <<"t", "d">>,
     extra_args |-> strip_args(d.extra_args),
     install_missing |-> safe_bool(Some(d.install_missing), TRUE),
     restart_on_fail |-> safe_bool(Some(d.restart_on_fail), TRUE),
     log_path |-> safe_path(Some(d.log_path.path), Path(config_dir.path \o <<"log">>))]

\* PathConfig.normalize
paths_normalize(p) ==
    [download_dir |-> safe_path(Some(p.download_dir.path), Path(<<"~", "dl">>)),
     config_dir |-> safe_path(Some(p.config_dir.path), ConfigDir)]

\* UIConfig.normalize
ui_normalize(u) ==
    [refresh_interval |-> Max(RefreshMin, Min(RefreshMax, safe_float(Some(u.refresh_interval), 25))),
     sort_column |-> IF IsNone(u.sort_column) \/ Val(u.sort_column) \in 1..8
                       THEN u.sort_column ELSE None,
     sort_desc |-> safe_bool(Some(u.sort_desc), FALSE),
     filter_text |-> IF u.filter_text # "" THEN u.filter_text ELSE "",
     status_filter |-> IF u.status_filter # "" THEN u.status_filter ELSE "any",
     progress_filter |-> IF u.progress_filter # "" THEN u.progress_filter ELSE "any"]

\* AppConfig.normalize
normalize(c) ==
    [rpc |-> rpc_normalize(c.rpc),
     daemon |-> daemon_normalize(c.daemon, paths_normalize(c.paths).config_dir),
     paths |-> paths_normalize(c.paths),
     ui |-> ui_normalize(c.ui)]

\* the mutant of _to_payload: the status filter written as the filter text
to_payload_filter_slip(c) ==
    [rpc |-> [host |-> c.rpc.host, port |-> c.rpc.port,
              username |-> IF IsNone(c.rpc.username) THEN <<>> ELSE Val(c.rpc.username),
              password |-> IF IsNone(c.rpc.password) THEN <<>> ELSE Val(c.rpc.password),
              timeout |-> c.rpc.timeout],
     daemon |-> [autostart |-> c.daemon.autostart, binary |-> c.daemon.binary,
                 extra_args |-> c.daemon.extra_args,
                 install_missing |-> c.daemon.install_missing,
                 restart_on_fail |-> c.daemon.restart_on_fail,
                 log_path |-> c.daemon.log_path.path],
     paths |-> [download_dir |-> c.paths.download_dir.path,
                config_dir |-> c.paths.config_dir.path],
     ui |-> [refresh_interval |-> c.ui.refresh_interval, sort_column |-> c.ui.sort_column,
             sort_desc |-> c.ui.sort_desc, filter_text |-> c.ui.status_filter,
             status_filter |-> c.ui.status_filter,
             progress_filter |-> c.ui.progress_filter]]

\* _to_payload: the document written; username/password None become "" and
\* the paths become strings
to_payload(c) ==
    [rpc |-> [host |-> c.rpc.host, port |-> c.rpc.port,
              username |-> IF IsNone(c.rpc.username) THEN <<>> ELSE Val(c.rpc.username),
              password |-> IF IsNone(c.rpc.password) THEN <<>> ELSE Val(c.rpc.password),
              timeout |-> c.rpc.timeout],
     daemon |-> [autostart |-> c.daemon.autostart, binary |-> c.daemon.binary,
                 extra_args |-> c.daemon.extra_args,
                 install_missing |-> c.daemon.install_missing,
                 restart_on_fail |-> c.daemon.restart_on_fail,
                 log_path |-> c.daemon.log_path.path],
     paths |-> [download_dir |-> c.paths.download_dir.path,
                config_dir |-> c.paths.config_dir.path],
     ui |-> [refresh_interval |-> c.ui.refresh_interval, sort_column |-> c.ui.sort_column,
             sort_desc |-> c.ui.sort_desc, filter_text |-> c.ui.filter_text,
             status_filter |-> c.ui.status_filter,
             progress_filter |-> c.ui.progress_filter]]

\* dict.get(key, default), as an optional value
Get(d, key) == IF key \in DOMAIN d THEN Some(d[key]) ELSE None

\* data.get(section, {})
Section(data, key) == IF key \in DOMAIN data THEN data[key] ELSE <<>>

\* _merge_config: the config built from a loaded document, normalized
merge_config(data) ==
    LET defaults == DefaultConfig
        rpc_data == Section(data, "rpc")
        daemon_data == Section(data, "daemon")
        paths_data == Section(data, "paths")
        ui_data == Section(data, "ui")
        GetOr(d, key, default) == IF key \in DOMAIN d THEN d[key] ELSE default
    IN  normalize(
        [rpc |-> [host |-> GetOr(rpc_data, "host", defaults.rpc.host),
                  port |-> safe_int(Some(GetOr(rpc_data, "port", defaults.rpc.port)),
                                    defaults.rpc.port, 1, PortMax),
                  username |-> OrNone(IF "username" \in DOMAIN rpc_data
                                        THEN Some(rpc_data["username"]) ELSE defaults.rpc.username),
                  password |-> OrNone(IF "password" \in DOMAIN rpc_data
                                        THEN Some(rpc_data["password"]) ELSE defaults.rpc.password),
                  timeout |-> safe_float(Some(GetOr(rpc_data, "timeout", defaults.rpc.timeout)),
                                         defaults.rpc.timeout)],
         daemon |-> [autostart |-> safe_bool(Some(GetOr(daemon_data, "autostart", defaults.daemon.autostart)),
                                             defaults.daemon.autostart),
                     binary |-> GetOr(daemon_data, "binary", defaults.daemon.binary),
                     extra_args |-> GetOr(daemon_data, "extra_args", defaults.daemon.extra_args),
                     install_missing |-> safe_bool(Some(GetOr(daemon_data, "install_missing",
                                                              defaults.daemon.install_missing)),
                                                   defaults.daemon.install_missing),
                     restart_on_fail |-> safe_bool(Some(GetOr(daemon_data, "restart_on_fail",
                                                              defaults.daemon.restart_on_fail)),
                                                   defaults.daemon.restart_on_fail),
                     log_path |-> safe_path(Some(GetOr(daemon_data, "log_path", defaults.daemon.log_path.path)),
                                            defaults.daemon.log_path)],
         paths |-> [download_dir |-> safe_path(Some(GetOr(paths_data, "download_dir",
                                                          defaults.paths.download_dir.path)),
                                               defaults.paths.download_dir),
                    config_dir |-> safe_path(Some(GetOr(paths_data, "config_dir",
                                                        defaults.paths.config_dir.path)),
                                             defaults.paths.config_dir)],
         ui |-> [refresh_interval |-> safe_float(Some(GetOr(ui_data, "refresh_interval",
                                                            defaults.ui.refresh_interval)),
                                                 defaults.ui.refresh_interval),
                 sort_column |-> GetOr(ui_data, "sort_column", defaults.ui.sort_column),
                 sort_desc |-> safe_bool(Some(GetOr(ui_data, "sort_desc", defaults.ui.sort_desc)),
                                         defaults.ui.sort_desc),
                 filter_text |-> LET v == GetOr(ui_data, "filter_text", defaults.ui.filter_text)
                                 IN  IF v # "" THEN v ELSE "",
                 status_filter |-> LET v == GetOr(ui_data, "status_filter", defaults.ui.status_filter)
                                   IN  IF v # "" THEN v ELSE "any",
                 progress_filter |-> LET v == GetOr(ui_data, "progress_filter", defaults.ui.progress_filter)
                                     IN  IF v # "" THEN v ELSE "any"]])

\* _load_yaml: a missing file is the empty document
load_yaml(file) == IF IsNone(file) THEN <<>> ELSE Val(file)

\* save_config: the file after it; written only if the document differs
save_config_file(c, file) ==
    LET payload == to_payload(normalize(c))
    IN  IF load_yaml(file) = payload THEN file ELSE Some(payload)

\* the sections sampled, each holding values normalize changes
RpcSamples ==
    [host : {<<>>, <<"h">>, <<" ", "h", " ">>}, port : {0, DefaultPort, PortMax + 1},
     username : {None, Some(<<>>), Some(<<"u">>)}, password : {None, Some(<<"p">>)},
     timeout : {0 - 10, TimeoutMin \div 2, TimeoutMin, 100}]

DaemonSamples ==
    [autostart : BOOLEAN, binary : {<<" ">>, <<"t", "d">>, <<" ", "x">>},
     extra_args : {<<>>, << <<" ">>, <<"-", "x", " ">> >>},
     install_missing : BOOLEAN, restart_on_fail : BOOLEAN,
     log_path : {Path(<<"~", "log">>), Path(<<"home", "torsh", "log">>)}]

PathsSamples ==
    [download_dir : {Path(<<"~", "dl">>), Path(<<"mnt">>)},
     config_dir : {Path(<<"~", "torsh">>), ConfigDir}]

UiSamples ==
    [refresh_interval : {0, RefreshMin, 25, RefreshMax, RefreshMax + 5},
     sort_column : {None, Some(0), Some(1), Some(8), Some(9)}, sort_desc : BOOLEAN,
     filter_text : {"", "x"}, status_filter : {"", "any", "paused"},
     progress_filter : {"", "done"}]

\* the configs sampled: the default with one section replaced
ConfigSamples ==
    {[DefaultConfig EXCEPT !.rpc = r] : r \in RpcSamples}
    \cup {[DefaultConfig EXCEPT !.daemon = d] : d \in DaemonSamples}
    \cup {[DefaultConfig EXCEPT !.paths = p] : p \in PathsSamples}
    \cup {[DefaultConfig EXCEPT !.ui = u] : u \in UiSamples}

\* ------------------------------------------------------------------------
\* config.py: load_config over a file of any content. A YAML value is given
\* by its kind; "absent" is a key the mapping does not hold. What decides
\* whether a step raises is the kind: only a mapping has .get, only a str
\* has .strip, and an int cannot be iterated.
\* ------------------------------------------------------------------------
\* what config.yaml holds at its top level
TopKinds == {"missing", "unparseable", "falsy", "mapping", "list", "scalar"}

\* a document: the kind of the top level, of the four sections, and of the
\* fields normalize calls methods of
NewDoc(top, rpc, dmn, paths, ui, host, binary, extra_args) ==
    [pc |-> "start", top |-> top, rpc |-> rpc, daemon |-> dmn, paths |-> paths,
     ui |-> ui, host |-> host, binary |-> binary, extra_args |-> extra_args,
     data |-> "none"]

DocIdle == [NewDoc("missing", "absent", "absent", "absent", "absent",
                   "absent", "absent", "absent") EXCEPT !.pc = "idle"]

\* the documents sampled: a top level that is no mapping, and mappings whose
\* sections and fields are of any kind
DocSamples ==
    {NewDoc(top, "absent", "absent", "absent", "absent", "absent", "absent", "absent") :
        top \in TopKinds \ {"mapping"}}
    \cup {NewDoc("mapping", rpc, dmn, paths, ui,
                 IF rpc = "mapping" THEN host ELSE "absent",
                 IF dmn = "mapping" THEN binary ELSE "absent",
                 IF dmn = "mapping" THEN extra_args ELSE "absent") :
            rpc \in {"absent", "mapping", "null", "scalar", "list"},
            dmn \in {"absent", "mapping", "null", "scalar"},
            paths \in {"absent", "mapping", "null"},
            ui \in {"absent", "mapping", "list"},
            host \in {"absent", "str", "int", "null"},
            binary \in {"absent", "str", "int", "null"},
            extra_args \in {"absent", "list", "str", "int", "null"}}

\* _load_yaml, lines 143-150: a missing file, a file that does not parse
\* and a falsy document give {}; another document is returned as it is
load_yaml_kind(top) ==
    IF top \in {"missing", "unparseable", "falsy"} THEN "mapping" ELSE top

\* d.get(key, default) where default is of kind default_kind and d a mapping
get_kind(value, default_kind) == IF value = "absent" THEN default_kind ELSE value

\* load_config, lines 231-232
LoadYaml ==
    /\ cfgDoc.pc = "start"
    /\ cfgDoc' = [cfgDoc EXCEPT !.pc = "loaded", !.data = load_yaml_kind(cfgDoc.top)]
    /\ UNCHANGED <<cfg, cfgFile, cfgWrites, cfgLoaded, cfgLoaded2, cfgPc, notCfg>>

\* _merge_config, lines 186-226: data.get of the four sections, then the
\* .get of every field; .get of what is no mapping raises AttributeError
MergeSections ==
    LET sections == {get_kind(cfgDoc[name], "mapping") :
                        name \in {"rpc", "daemon", "paths", "ui"}}
    IN  /\ cfgDoc.pc = "loaded"
        /\ cfgDoc' = [cfgDoc EXCEPT !.pc =
                          IF cfgDoc.data # "mapping" THEN "raised"
                          ELSE IF sections # {"mapping"} THEN "raised"
                          ELSE "built"]
        /\ UNCHANGED <<cfg, cfgFile, cfgWrites, cfgLoaded, cfgLoaded2, cfgPc, notCfg>>

\* _merge_config, line 227: cfg.normalize(). RpcConfig.normalize calls
\* self.host.strip() (line 61), DaemonConfig.normalize self.binary.strip()
\* (line 82) and iterates self.extra_args or [] (line 83)
NormalizeLoaded ==
    LET host == get_kind(cfgDoc.host, "str")
        binary == get_kind(cfgDoc.binary, "str")
        extra_args == IF cfgDoc.extra_args \in {"absent", "null"} THEN "list"
                      ELSE cfgDoc.extra_args
    IN  /\ cfgDoc.pc = "built"
        /\ cfgDoc' = [cfgDoc EXCEPT !.pc =
                          IF host # "str" \/ binary # "str" \/ extra_args = "int"
                            THEN "raised" ELSE "normalized"]
        /\ UNCHANGED <<cfg, cfgFile, cfgWrites, cfgLoaded, cfgLoaded2, cfgPc, notCfg>>

\* load_config, lines 233-234
SaveLoaded ==
    /\ cfgDoc.pc = "normalized"
    /\ cfgDoc' = [cfgDoc EXCEPT !.pc = "returned"]
    /\ UNCHANGED <<cfg, cfgFile, cfgWrites, cfgLoaded, cfgLoaded2, cfgPc, notCfg>>

CfgIdle ==
    /\ cfg = None /\ cfgFile = None /\ cfgWrites = 0
    /\ cfgLoaded = None /\ cfgLoaded2 = None /\ cfgPc = "idle"
    /\ cfgDoc = DocIdle

\* a config in memory; the file is missing or holds the default document
CfgInit ==
    /\ cfg \in {Some(c) : c \in ConfigSamples}
    /\ cfgFile \in {None, Some(to_payload(normalize(DefaultConfig)))}
    /\ cfgWrites = 0
    /\ cfgLoaded = None /\ cfgLoaded2 = None /\ cfgPc = "start"
    /\ cfgDoc = DocIdle

\* save_config(c)
SaveConfig ==
    /\ cfgPc = "start"
    /\ cfgFile' = save_config_file(Val(cfg), cfgFile)
    /\ cfgWrites' = IF cfgFile' = cfgFile THEN cfgWrites ELSE cfgWrites + 1
    /\ cfgPc' = "saved"
    /\ UNCHANGED <<cfg, cfgLoaded, cfgLoaded2, cfgDoc, notCfg>>

\* load_config(): _load_yaml, _merge_config, save_config(config)
LoadConfig ==
    /\ cfgPc = "saved"
    /\ cfgLoaded' = Some(merge_config(load_yaml(cfgFile)))
    /\ cfgFile' = save_config_file(Val(cfgLoaded'), cfgFile)
    /\ cfgWrites' = IF cfgFile' = cfgFile THEN cfgWrites ELSE cfgWrites + 1
    /\ cfgPc' = "loaded"
    /\ UNCHANGED <<cfg, cfgLoaded2, cfgDoc, notCfg>>

\* load_config() once more
LoadConfigAgain ==
    /\ cfgPc = "loaded"
    /\ cfgLoaded2' = Some(merge_config(load_yaml(cfgFile)))
    /\ cfgFile' = save_config_file(Val(cfgLoaded2'), cfgFile)
    /\ cfgWrites' = IF cfgFile' = cfgFile THEN cfgWrites ELSE cfgWrites + 1
    /\ cfgPc' = "loaded2"
    /\ UNCHANGED <<cfg, cfgLoaded, cfgDoc, notCfg>>

\* ------------------------------------------------------------------------
\* ui/app.py: TorshApp, and the daemon it polls
\* ------------------------------------------------------------------------
\* how many torrents the daemon holds
NumTorrents == 2

Ids == 1..NumTorrents

\* the size of every torrent, in pieces
SizeUnits == 1

\* the literal 3 of _auto_retry_failed
RetryLimit == 3

\* where the observer's counters stop counting
MaxCount == 4

Full == Hundred * Hundred

\* the literals 99.9 and 50.0 of _apply_filter
NearlyDone == 999 * (Hundred \div 10)

HalfDone == 50 * Hundred

Statuses == {"downloading", "seeding", "stopped", "error"}

\* the daemon's torrents: a status and the pieces left to download
DaemonTorrents ==
    {t \in [status : Statuses, left : 0..SizeUnits] :
        /\ t.status = "seeding" => t.left = 0
        /\ t.status \in {"downloading", "error"} => t.left > 0}

TorrentName(i) == IF i % 2 = 1 THEN <<"a">> ELSE <<"b">>

\* the Torrent object of transmission_rpc, as _map_torrent reads it
torrent_object(t) ==
    [percentDone |-> None, progress |-> None, sizeWhenDone |-> None,
     size_when_done |-> Some(SizeUnits), leftUntilDone |-> None,
     left_until_done |-> Some(t.left)]

\* list_torrents: one TorrentView per torrent, in the daemon's (id) order
list_torrents(d) ==
    SelectSeq([i \in Ids |-> [id |-> i, name |-> TorrentName(i), status |-> d.t[i].status,
                              percent_done |-> map_percent(torrent_object(d.t[i]))]],
              LAMBDA v : v.status # "removed")

ViewIds(views) == {views[k].id : k \in DOMAIN views}

\* "error" in status.lower()
has_error(status) == status = "error"

\* text in name, on strings as sequences of characters
Contains(text, name) ==
    \E k \in 0..(Len(name) - Len(text)) : SubSeq(name, k + 1, k + Len(text)) = text

\* the tests of _apply_filter on one torrent
passes_filter(a, t) ==
    /\ ~(a.filter_text # <<>> /\ ~Contains(a.filter_text, t.name))
    /\ CASE a.status_filter_value = "active" ->
                t.status \in {"downloading", "seeding", "checking"}
         [] a.status_filter_value = "paused" -> t.status \in {"stopped", "paused"}
         [] a.status_filter_value = "error" -> has_error(t.status)
         [] OTHER -> TRUE
    /\ CASE a.progress_filter_value = "done" -> ~(t.percent_done < NearlyDone)
         [] a.progress_filter_value = "under50" -> ~(t.percent_done >= HalfDone)
         [] OTHER -> TRUE

\* _apply_filter: self.filtered, and the selection when it fell out of it
apply_filter(a) ==
    LET filtered == SelectSeq(a.torrents, LAMBDA t : passes_filter(a, t))
    IN  [a EXCEPT !.filtered = filtered,
                  !.selected_id =
                      IF a.selected_id # None /\ Val(a.selected_id) \notin ViewIds(filtered)
                        THEN IF filtered # <<>> THEN Some(filtered[1].id) ELSE None
                        ELSE a.selected_id]

\* sorted(data, key=lambda t: t.id): the views by ascending id (ids are unique)
sort_by_id(data) ==
    LET rank(i) == Cardinality({j \in ViewIds(data) : j < i}) + 1
    IN  [k \in 1..Len(data) |-> data[CHOOSE j \in DOMAIN data : rank(data[j].id) = k]]

reverse(data) == [k \in 1..Len(data) |-> data[Len(data) + 1 - k]]

\* _sorted: the data itself with sort_column None, the configuration's
\* default; of the key functions, the one of column 1
sorted(a, data) ==
    IF a.sort_column = None THEN data
    ELSE IF a.sort_desc THEN reverse(sort_by_id(data)) ELSE sort_by_id(data)

\* _set_sort, lines 906-910
set_sort(a, col) ==
    IF a.sort_column = Some(col)
      THEN [a EXCEPT !.sort_desc = ~@]
      ELSE [a EXCEPT !.sort_column = Some(col), !.sort_desc = FALSE]

\* the snapshot _torrent_cells keeps of a row; round(percent_done, 2) is the
\* fixed-point value itself
snapshot(t) == [name |-> t.name, progress |-> t.percent_done, status |-> t.status]

\* the mutant of the rendered list: every torrent, whatever the filters
displayed_all(a) == a.torrents

\* self.filtered or self.torrents
displayed(a) == IF a.filtered # <<>> THEN a.filtered ELSE a.torrents

\* _render_table: rows and cache entries of torrents no longer displayed go,
\* every displayed torrent gets a row and a snapshot, and the selection is
\* kept inside the displayed list
render_table(a) ==
    LET data == sorted(a, displayed(a))
        desired == ViewIds(data)
        gone == a.rows \ desired
        snap == [i \in desired |-> snapshot(data[CHOOSE k \in DOMAIN data : data[k].id = i])]
        sel == IF a.selected_id # None /\ Val(a.selected_id) \notin desired
                 THEN None ELSE a.selected_id
    IN  [a EXCEPT !.rows = (a.rows \ gone) \cup desired,
                  !._row_cache = [i \in (DOMAIN a._row_cache \ gone) \cup desired |->
                                     IF i \in desired THEN snap[i] ELSE a._row_cache[i]],
                  !.selected_id = IF sel = None /\ data # <<>> THEN Some(data[1].id) ELSE sel]

\* _current: the polled view of the selected torrent
current(a) ==
    IF a.selected_id = None THEN None
    ELSE {a.torrents[k] : k \in {j \in DOMAIN a.torrents : a.torrents[j].id = Val(a.selected_id)}}

\* the application object after __init__
NewApp(restart) ==
    [torrents |-> <<>>, filtered |-> <<>>, selected_id |-> None, filter_text |-> <<>>,
     status_filter_value |-> "any", progress_filter_value |-> "any",
     _modal_depth |-> 0, _completed_ids |-> {}, _verified_ids |-> {},
     _user_paused |-> {}, _auto_started |-> {},
     _auto_retry_attempts |-> [i \in Ids |-> 0],
     connection_ok |-> TRUE, _connection_state |-> TRUE, _last_refresh_error |-> FALSE,
     _row_cache |-> <<>>, rows |-> {}, restart |-> restart, crashed |-> FALSE,
     screen_stack |-> <<>>, sort_column |-> None, sort_desc |-> FALSE,
     confirm |-> None,
     \* the refresh timer: the interval in tenths of a second, the handle
     \* set_interval returned, the timers armed, and what calling the handle
     \* does (it stops the timer, or the object is not callable and raises)
     mounted |-> TRUE, refresh_interval |-> 25, _refresh_timer |-> Some(1),
     timers |-> {[id |-> 1, period |-> 25]}, handle_call |-> "stops",
     \* self.config.ui, the ui section of the config file, and whether the
     \* file can be written
     config_ui |-> DefaultConfig.ui, file_ui |-> DefaultConfig.ui, disk_ok |-> TRUE]

\* ------------------------------------------------------------------------
\* ui/app.py: the coroutines. The timer runs refresh_all in a task of its
\* own; key bindings run in the message pump, one at a time. A coroutine is
\* a record of its locals; the operators below run it from one await to the
\* next on a machine m = [a |-> app, l |-> locals, o |-> observer], so a
\* loop runs on until the await it reaches.
\* _refresh_stats, gathered with _refresh_torrents, touches none of the
\* application state modelled here: of it the model keeps the session_stats
\* RPC and its outcome (locals' stats). The two RPCs of the gather are
\* independent; the model lets the daemon take the stats RPC first.
\* ------------------------------------------------------------------------
Contexts == {"timer", "pump", "worker"}

NoRpc == [method |-> "none", ids |-> {}, at |-> "none", res |-> "none", views |-> <<>>]

IdleCtx ==
    [pc |-> "idle", caller |-> "none", previous_state |-> TRUE, restart_notes |-> 0,
     old_torrents |-> <<>>, torrents |-> <<>>, idx |-> 0, to_start |-> {},
     torrent |-> None, rpc |-> NoRpc, stats |-> "none"]

NewObs ==
    [completed_notes |-> [i \in Ids |-> 0], verify_rpcs |-> [i \in Ids |-> 0],
     retry_starts |-> [i \in Ids |-> 0], below |-> {}, crossed |-> {},
     op_paused |-> {}, auto_after_pause |-> {},
     lost_notes |-> 0, failed_checks |-> 0, last_check |-> None,
     start_on_failure |-> None, error_notes |-> 0, on_main |-> {},
     \* the ids whose first polled snapshot was at 100%
     born_full |-> {},
     \* the operator RPCs whose failure was notified (lines 988, 1006)
     cmd_errors |-> {},
     \* an exception of a dismissal callback was logged (line 1235)
     dismiss_error |-> FALSE]

Count(n) == Min(MaxCount, n + 1)

\* await self.controller.<method>(ids): the coroutine waits at pc
Call(m, pc, method, ids) ==
    [m EXCEPT !.l.pc = pc,
              !.l.rpc = [method |-> method, ids |-> ids, at |-> "sent",
                         res |-> "none", views |-> <<>>]]

\* the handler returns
Return(m) == [m EXCEPT !.l = IdleCtx]

\* _refresh_torrents, lines 479-480
\* (the observer: a cycle whose two fetches succeeded ends a run of failing
\* cycles)
render_finish(m) ==
    Return([m EXCEPT !.a = [render_table(m.a) EXCEPT !._last_refresh_error = FALSE],
                     !.o.error_notes = IF m.l.stats = "failed" THEN @ ELSE 0])

\* _auto_resume, lines 446-452: the ids to start
resume_candidates(a, torrents) ==
    {torrents[k].id : k \in {j \in DOMAIN torrents :
        /\ ~(torrents[j].percent_done >= Full)
        /\ torrents[j].status \in {"stopped", "paused"}
        /\ torrents[j].id \notin a._user_paused}}

\* the observer: an automatic start RPC for ids leaves the application
auto_start_issued(o, ids) ==
    [o EXCEPT !.auto_after_pause = @ \cup (ids \cap o.op_paused)]

\* _auto_resume, up to its await
auto_resume(m) ==
    LET to_start == resume_candidates(m.a, m.a.torrents)
    IN  IF to_start = {} THEN render_finish(m)
        ELSE Call([m EXCEPT !.l.to_start = to_start,
                            !.o = auto_start_issued(m.o, to_start)],
                  "resume_start", "start", to_start)

\* line 432, negated: the loop goes on to the start RPC
retry_allowed(attempts) == ~(attempts >= RetryLimit)

\* _auto_retry_failed from its i-th torrent, up to its next await
RECURSIVE retry_loop(_, _)
retry_loop(m, i) ==
    IF i > Len(m.l.torrents) THEN auto_resume(m)
    ELSE LET t == m.l.torrents[i]
             attempts == m.a._auto_retry_attempts[t.id]
         IN  IF has_error(t.status) /\ t.percent_done < Full
               THEN IF ~retry_allowed(attempts) THEN retry_loop(m, i + 1)
                    ELSE Call([m EXCEPT !.a._auto_retry_attempts[t.id] = attempts + 1,
                                        !.l.idx = i,
                                        !.o = [auto_start_issued(m.o, {t.id}) EXCEPT
                                                  !.retry_starts[t.id] = Count(@)]],
                              "retry_start", "start", {t.id})
               ELSE retry_loop([m EXCEPT !.a._auto_retry_attempts[t.id] = 0], i + 1)

\* _refresh_torrents, lines 476-477
after_completion(m) ==
    retry_loop([m EXCEPT !.a = apply_filter(m.a), !.l.torrents = m.a.torrents,
                         !.l.old_torrents = <<>>], 1)

\* line 470: the completion is announced
completed_transition(old_torrents, t) ==
    \E k \in DOMAIN old_torrents :
        old_torrents[k].id = t.id /\ old_torrents[k].percent_done < Full

\* the completion loop of _refresh_torrents from its i-th torrent, up to the
\* await of _auto_verify
RECURSIVE completion_loop(_, _)
completion_loop(m, i) ==
    IF i > Len(m.l.torrents) THEN after_completion(m)
    ELSE LET t == m.l.torrents[i]
         IN  IF t.percent_done >= Full /\ t.id \notin m.a._completed_ids
               THEN LET m1 == [m EXCEPT !.a._completed_ids = @ \cup {t.id},
                                        !.o.completed_notes[t.id] =
                                            IF completed_transition(m.l.old_torrents, t)
                                              THEN Count(@) ELSE @]
                    IN  IF t.id \in m1.a._verified_ids THEN completion_loop(m1, i + 1)
                        ELSE Call([m1 EXCEPT !.l.idx = i,
                                             !.o.verify_rpcs[t.id] = Count(@)],
                                  "verify", "verify", {t.id})
               ELSE completion_loop(m, i + 1)

\* refresh_all, lines 375-378, the gather: _refresh_torrents, lines 465-466,
\* and _refresh_stats, line 489
refresh_torrents(m) ==
    Call([m EXCEPT !.l.old_torrents = m.a.torrents, !.l.stats = "sent"],
         "list", "get_torrents", {})

\* _check_connection, lines 382-385
check_connection(m, caller) ==
    Call([m EXCEPT !.l.caller = caller, !.l.previous_state = m.a._connection_state,
                   !.l.restart_notes = 0],
         "ensure", "get_session", {})

\* refresh_all, lines 371-373; inside is whether action_toggle's try is around
refresh_all(m, inside) ==
    IF m.a._modal_depth > 0 THEN Return(m)
    ELSE check_connection(m, IF inside THEN "toggle_refresh" ELSE "refresh_all")

\* action_toggle, lines 974-983
toggle_body(m) ==
    LET cur == current(m.a)
    IN  IF cur = None THEN Return(m)
        ELSE IF Val(cur).status \in {"downloading", "seeding", "checking"}
               THEN Call([m EXCEPT !.l.torrent = cur], "toggle_stop", "stop", {Val(cur).id})
               ELSE Call([m EXCEPT !.l.torrent = cur,
                                   !.o.op_paused = @ \ {Val(cur).id}],
                         "toggle_start", "start", {Val(cur).id})

\* action_delete, lines 993-1013: the confirmation screen is shown by
\* _show_modal_with_callback (lines 1221 and 1239), its callback holds the
\* torrent, and the action ends
delete_body(m) ==
    LET cur == current(m.a)
    IN  IF cur = None THEN Return(m)
        ELSE Return([m EXCEPT !.a._modal_depth = @ + 1,
                              !.a.screen_stack = Append(@, "ConfirmScreen"),
                              !.a.confirm = cur])

\* the mutant of line 980: the torrent counts as paused whatever the RPC did
after_stop_always(a, id, failed) == [a EXCEPT !._user_paused = @ \cup {id}]

\* action_toggle, lines 979-980: an exception of the stop RPC skips the add
after_stop(a, id, failed) ==
    IF failed THEN a ELSE [a EXCEPT !._user_paused = @ \cup {id}]

\* action_toggle, lines 983-984: an exception of the start RPC skips the
\* discard
after_start(a, id, failed) ==
    IF failed THEN a ELSE [a EXCEPT !._user_paused = @ \ {id}]

\* the except clauses of action_toggle (line 988) and _remove (line 1006)
command_failed(m, method) ==
    Return([m EXCEPT !.o.cmd_errors = @ \cup {method}])

\* the mutant of _remove: the sets are cleaned whatever the RPC did
after_remove_always(a, id, failed) ==
    [a EXCEPT !._completed_ids = @ \ {id}, !._user_paused = @ \ {id},
              !._auto_started = @ \ {id}]

\* _remove, lines 998-1002: an exception of the RPC skips the discards
after_remove(a, id, failed) ==
    IF failed THEN a
    ELSE [a EXCEPT !._completed_ids = @ \ {id}, !._user_paused = @ \ {id},
                   !._auto_started = @ \ {id}]

\* the mutant of line 402: the change notification whatever the states
connection_changed_always(connection_ok, previous_state) == TRUE

\* line 402
connection_changed(connection_ok, previous_state) == connection_ok # previous_state

\* the observer: a connection check ends
check_observed(o, l, connection_ok, connected, tail) ==
    LET changed == tail /\ connection_changed(connection_ok, l.previous_state)
    IN  [o EXCEPT !.last_check =
                      Some([previous_state |-> l.previous_state, ends_in |-> connection_ok,
                            change_notes |-> IF changed THEN 1 ELSE 0,
                            restart_notes |-> l.restart_notes]),
                  !.lost_notes = IF connected THEN 0
                                 ELSE IF changed /\ ~connection_ok THEN Count(@) ELSE @,
                  !.failed_checks = IF connected THEN 0 ELSE Count(@)]

\* _check_connection, lines 402-407, and the caller's next step
check_tail(m, connected) ==
    LET m1 == [m EXCEPT !.a._connection_state = m.a.connection_ok,
                        !.o = check_observed(m.o, m.l, m.a.connection_ok, connected, TRUE)]
    IN  IF ~connected THEN Return([m1 EXCEPT !.o.error_notes = 0])
        ELSE IF m.l.caller = "action_toggle" THEN toggle_body(m1)
        ELSE IF m.l.caller = "action_delete" THEN delete_body(m1)
        ELSE refresh_torrents(m1)

\* ------------------------------------------------------------------------
\* ui/app.py: the steps. An RPC is sent by the coroutine, executed by the
\* daemon (the thread of asyncio.to_thread), and its answer resumes the
\* coroutine; other coroutines run between these.
\* ------------------------------------------------------------------------
Machine(c) == [a |-> app, l |-> ctx[c], o |-> obs]

Commit(c, m) ==
    /\ app' = m.a
    /\ ctx' = [ctx EXCEPT ![c] = m.l]
    /\ obs' = m.o

Idle(c) == ~app.crashed /\ app.mounted /\ ctx[c].pc = "idle"

Answered(c, pc) == ~app.crashed /\ ctx[c].pc = pc /\ ctx[c].rpc.at = "done"

Failed(c) == ctx[c].rpc.res # "ok"

\* set_interval(value, self.refresh_all): the timer runs the callback
TimerTick ==
    /\ Idle("timer")
    /\ Commit("timer", refresh_all(Machine("timer"), FALSE))
    /\ UNCHANGED <<daemon, notApp>>

\* action_refresh
ActionRefresh ==
    /\ Idle("pump")
    /\ Commit("pump", refresh_all(Machine("pump"), FALSE))
    /\ UNCHANGED <<daemon, notApp>>

\* action_toggle, line 972
ActionToggle ==
    /\ Idle("pump")
    /\ Commit("pump", check_connection(Machine("pump"), "action_toggle"))
    /\ UNCHANGED <<daemon, notApp>>

Successor(order, v) ==
    LET idx == CHOOSE k \in DOMAIN order : order[k] = v
    IN  order[(idx % Len(order)) + 1]

\* order.index(v) raises ValueError: v is not in the list
not_in_order(order, v) == \A k \in DOMAIN order : order[k] # v

\* the preferences of the application object, as _persist_ui copies them
\* (lines 1254-1259)
ui_prefs(a) ==
    [refresh_interval |-> a.refresh_interval, sort_column |-> a.sort_column,
     sort_desc |-> a.sort_desc, filter_text |-> a.filter_text,
     status_filter |-> a.status_filter_value, progress_filter |-> a.progress_filter_value]

\* the ui section save_config writes: _to_payload(config.normalize()); the
\* filter text of the application is a str, which normalize keeps
ui_payload(u) == [ui_normalize([u EXCEPT !.filter_text = ""]) EXCEPT !.filter_text = u.filter_text]

\* _persist_ui, lines 1254-1263: an exception of save_config is swallowed
persist_ui(a) ==
    [a EXCEPT !.config_ui = ui_prefs(a),
              !.file_ui = IF a.disk_ok THEN ui_payload(ui_prefs(a)) ELSE @]

\* action_status_filter, lines 1144-1152; an exception of line 1146 leaves
\* the action
ActionStatusFilter ==
    LET order == <<"any", "active", "paused", "error">>
    IN  /\ Idle("pump")
        /\ app' = IF not_in_order(order, app.status_filter_value)
                    THEN [app EXCEPT !.crashed = TRUE]
                    ELSE persist_ui(render_table(apply_filter(
                            [app EXCEPT !.status_filter_value = Successor(order, @)])))
        /\ UNCHANGED <<ctx, daemon, obs, notApp>>

\* action_progress_filter, lines 1154-1162
ActionProgressFilter ==
    LET order == <<"any", "done", "under50">>
    IN  /\ Idle("pump")
        /\ app' = IF not_in_order(order, app.progress_filter_value)
                    THEN [app EXCEPT !.crashed = TRUE]
                    ELSE persist_ui(render_table(apply_filter(
                            [app EXCEPT !.progress_filter_value = Successor(order, @)])))
        /\ UNCHANGED <<ctx, daemon, obs, notApp>>

\* max(0.8, ...), min(10.0, ...) of _set_refresh_interval and the step 0.5
\* of action_faster and action_slower, in tenths
IntervalMin == 8

IntervalMax == 100

IntervalStep == 5

\* how many timers can be armed at a time
MaxTimers == 3

\* the mutant of lines 361-362: the previous timer is left armed
cancel_nothing(timers, handle) == timers

\* lines 361-362: the timer of the handle is stopped
cancel(timers, handle) == {t \in timers : Some(t.id) # handle}

\* _set_refresh_interval, lines 361-366. Line 362 calls the handle that
\* set_interval returned.
set_refresh_interval(a, value) ==
    IF a._refresh_timer # None /\ a.handle_call = "raises"
      THEN [a EXCEPT !.crashed = TRUE]
      ELSE LET v == Max(IntervalMin, Min(IntervalMax, value))
               left == cancel(a.timers, a._refresh_timer)
               id == CHOOSE i \in 1..MaxTimers : \A t \in left : t.id # i
           IN  persist_ui([a EXCEPT !.refresh_interval = v,
                                    !.timers = left \cup {[id |-> id, period |-> v]},
                                    !._refresh_timer = Some(id)])

\* whether set_interval has a timer left to hand out
can_arm(a) == Cardinality(cancel(a.timers, a._refresh_timer)) < MaxTimers

\* action_faster, line 1168
ActionFaster ==
    /\ Idle("pump") /\ can_arm(app)
    /\ app' = set_refresh_interval(app, app.refresh_interval - IntervalStep)
    /\ UNCHANGED <<ctx, daemon, obs, notApp>>

\* action_slower, line 1172
ActionSlower ==
    /\ Idle("pump") /\ can_arm(app)
    /\ app' = set_refresh_interval(app, app.refresh_interval + IntervalStep)
    /\ UNCHANGED <<ctx, daemon, obs, notApp>>

\* action_sort_1: _set_sort(1), which ends with _render_table (line 911)
ActionSort ==
    /\ Idle("pump")
    /\ app' = render_table(set_sort(app, 1))
    /\ UNCHANGED <<ctx, daemon, obs, notApp>>

\* action_delete, line 991. (One removal at a time: the worker of an
\* earlier removal has ended.)
ActionDelete ==
    /\ Idle("pump") /\ Idle("worker") /\ app.screen_stack = <<>>
    /\ Commit("pump", check_connection(Machine("pump"), "action_delete"))
    /\ UNCHANGED <<daemon, notApp>>

\* on_data_table_row_selected
RowSelected ==
    /\ Idle("pump")
    /\ \E i \in app.rows :
          /\ app.selected_id # Some(i)
          /\ app' = [app EXCEPT !.selected_id = Some(i)]
    /\ UNCHANGED <<ctx, daemon, obs, notApp>>

\* _show_modal_with_callback, lines 1221 and 1239: the depth counter, and
\* the screen pushed on the screen stack
show_modal_with_callback(a, screen) ==
    [a EXCEPT !._modal_depth = @ + 1, !.screen_stack = Append(@, screen)]

\* the screen is dismissed and on_dismiss runs, line 1226
on_dismiss(a) ==
    [a EXCEPT !._modal_depth = Max(0, @ - 1),
              !.screen_stack = SubSeq(@, 1, Len(@) - 1)]

\* action_filter, line 1136: the coroutine waits for the screen's result
ActionFilter ==
    /\ Idle("pump") /\ app.screen_stack = <<>>
    /\ app' = show_modal_with_callback(app, "FilterScreen")
    /\ ctx' = [ctx EXCEPT !["pump"].pc = "modal"]
    /\ UNCHANGED <<daemon, obs, notApp>>

\* FilterScreen.on_button_pressed dismisses with the text, "" or None;
\* action_filter goes on, lines 1137-1140
FilterDismiss ==
    \E result \in {None, Some(<<>>), Some(<<"a">>)} :
        LET a == on_dismiss(app)
        IN  /\ ~app.crashed /\ ctx["pump"].pc = "modal"
            /\ app' = IF result = None THEN a
                      ELSE persist_ui(render_table(apply_filter(
                              [a EXCEPT !.filter_text = Val(result)])))
            /\ ctx' = [ctx EXCEPT !["pump"] = IdleCtx]
            /\ UNCHANGED <<daemon, obs, notApp>>

\* ConfirmScreen dismisses with True, False or None; on_dismiss runs and
\* _on_dismiss (lines 1008-1010) starts _remove in a worker, which sends the
\* remove RPC (line 999)
ConfirmDismiss ==
    \E result \in {None, Some(FALSE), Some(TRUE)} :
        LET a == [on_dismiss(app) EXCEPT !.confirm = None]
            m == [a |-> a, l |-> ctx["worker"], o |-> obs]
        IN  /\ ~app.crashed /\ app.screen_stack = <<"ConfirmScreen">>
            /\ ctx["pump"].pc = "idle" /\ ctx["worker"].pc = "idle"
            /\ IF result = Some(TRUE)
                 THEN Commit("worker", Call([m EXCEPT !.l.torrent = app.confirm],
                                            "remove", "remove", {Val(app.confirm).id}))
                 ELSE app' = a /\ UNCHANGED <<ctx, obs>>
            /\ UNCHANGED <<daemon, notApp>>

\* the mutant of line 1237: the except clause decrements without the floor
restored_unclamped(depth) == depth - 1

\* line 1237: the except clause of on_dismiss
restored(depth) == Max(0, depth - 1)

\* ConfirmScreen is dismissed and the callback (run_worker, line 1010)
\* raises: on_dismiss has decremented (line 1226), logs the exception and
\* decrements again (lines 1234-1237); no worker runs
ConfirmDismissRaises ==
    /\ ~app.crashed /\ app.screen_stack = <<"ConfirmScreen">>
    /\ ctx["pump"].pc = "idle" /\ ctx["worker"].pc = "idle"
    /\ app' = [on_dismiss(app) EXCEPT !.confirm = None,
                                      !._modal_depth = restored(@)]
    /\ obs' = [obs EXCEPT !.dismiss_error = TRUE]
    /\ UNCHANGED <<ctx, daemon, notApp>>

\* _remove, lines 1000-1004, or its except clause
RemoveDone ==
    \E c \in Contexts :
        LET m == Machine(c)
            a == after_remove(m.a, Val(m.l.torrent).id, Failed(c))
        IN  /\ Answered(c, "remove")
            /\ Commit(c, IF Failed(c) THEN command_failed([m EXCEPT !.a = a], "remove")
                         ELSE refresh_all([m EXCEPT !.a = a], TRUE))
            /\ UNCHANGED <<daemon, notApp>>

\* action_help, line 1165: the screen is pushed and the action ends
ActionHelp ==
    /\ Idle("pump") /\ app.screen_stack = <<>>
    /\ app' = [app EXCEPT !.screen_stack = Append(@, "HelpScreen")]
    /\ UNCHANGED <<ctx, daemon, obs, notApp>>

\* BaseModalScreen.action_cancel on the help screen
HelpDismiss ==
    /\ ~app.crashed /\ app.screen_stack = <<"HelpScreen">>
    /\ app' = [app EXCEPT !.screen_stack = <<>>]
    /\ UNCHANGED <<ctx, daemon, obs, notApp>>

\* the daemon after start_torrent(ids); a torrent in error may stay in error
started(t, recovers) ==
    CASE t.status = "stopped" ->
             [t EXCEPT !.status = IF t.left = 0 THEN "seeding" ELSE "downloading"]
      [] t.status = "error" /\ recovers -> [t EXCEPT !.status = "downloading"]
      [] OTHER -> t

\* the daemon executes the RPC a coroutine waits for
DaemonExec ==
    \E c \in Contexts :
        LET rpc == ctx[c].rpc
            done(res) == [ctx EXCEPT ![c].rpc.at = "done", ![c].rpc.res = res]
        IN  /\ ~app.crashed /\ rpc.at = "sent" /\ daemon.up
            /\ \/ /\ ctx[c].stats = "sent"
                  /\ ctx' = [ctx EXCEPT ![c].stats = "ok"]
                  /\ UNCHANGED <<daemon, obs>>
               \/ /\ rpc.method = "get_torrents" /\ ctx[c].stats # "sent"
                  /\ ctx' = [done("ok") EXCEPT ![c].rpc.views = list_torrents(daemon)]
                  /\ UNCHANGED <<daemon, obs>>
               \/ /\ rpc.method \in {"get_session", "verify"}
                  /\ ctx' = done("ok")
                  /\ UNCHANGED <<daemon, obs>>
               \/ /\ rpc.method = "stop"
                  /\ ctx' = done("ok")
                  /\ daemon' = [daemon EXCEPT !.t =
                        [i \in Ids |-> IF i \in rpc.ids /\ @[i].status # "removed"
                                         THEN [@[i] EXCEPT !.status = "stopped"]
                                       ELSE @[i]]]
                  /\ obs' = [obs EXCEPT !.op_paused = @ \cup rpc.ids]
               \/ /\ rpc.method = "start"
                  /\ ctx' = done("ok")
                  /\ \E recovers \in BOOLEAN :
                        daemon' = [daemon EXCEPT !.t =
                            [i \in Ids |-> IF i \in rpc.ids THEN started(@[i], recovers)
                                           ELSE @[i]]]
                  /\ UNCHANGED obs
               \/ /\ rpc.method = "remove"
                  /\ ctx' = done("ok")
                  /\ daemon' = [daemon EXCEPT !.t =
                        [i \in Ids |-> IF i \in rpc.ids THEN [@[i] EXCEPT !.status = "removed"]
                                       ELSE @[i]]]
                  /\ UNCHANGED obs
            /\ UNCHANGED <<app, notApp>>

\* the RPC fails: a TransmissionError (connection refused), or another
\* exception (the timeout of asyncio.wait_for)
RpcFails ==
    \E c \in Contexts : \E res \in {"terr", "exc"} :
        /\ ~app.crashed /\ ctx[c].rpc.at = "sent" /\ ~daemon.up
        /\ ctx' = IF ctx[c].stats = "sent" THEN [ctx EXCEPT ![c].stats = "failed"]
                  ELSE [ctx EXCEPT ![c].rpc.at = "done", ![c].rpc.res = res]
        /\ UNCHANGED <<app, daemon, obs, notApp>>

\* the stop, start or remove RPC of an operator action fails although the
\* daemon runs: the answer does not come within the deadline of _call
OperatorRpcFails ==
    \E c \in Contexts :
        /\ ~app.crashed /\ ctx[c].rpc.at = "sent" /\ daemon.up
        /\ ctx[c].pc \in {"toggle_stop", "toggle_start", "remove"}
        /\ ctx' = [ctx EXCEPT ![c].rpc.at = "done", ![c].rpc.res = "exc"]
        /\ UNCHANGED <<app, daemon, obs, notApp>>

\* the observer: a poll is handed to the application
poll_observed(o, views) ==
    LET full == {views[k].id : k \in {j \in DOMAIN views : views[j].percent_done >= Full}}
        calm == {views[k].id : k \in {j \in DOMAIN views :
                    ~(has_error(views[j].status) /\ views[j].percent_done < Full)}}
    IN  [o EXCEPT !.crossed = @ \cup (full \cap o.below),
                  !.born_full = @ \cup (full \ o.below),
                  !.below = @ \cup (ViewIds(views) \ full),
                  !.retry_starts = [i \in Ids |-> IF i \in calm THEN 0 ELSE @[i]]]

\* _check_connection, lines 386-394: the first ensure_connected answers.
\* (The observer notes, for a failed answer, whether maybe_start_daemon was
\* invoked.)
\* maybe_start_daemon blocks until the daemon is up ("up"), returns without
\* starting one ("noop"), or raises: the exception leaves the check, and the
\* application unless action_toggle's try is around it.
\* Line 393 calls maybe_start_daemon as a plain function of the coroutine, so
\* after a launch its time.sleep (daemon.py:205) and its connect loop
\* (daemon.py:206) run in the context of the event loop; the observer notes
\* the daemon-facing operations that ran there. The RPC methods of Call run
\* in a thread (client.py:68) and are not noted.
start_daemon_blocks(outcome) ==
    IF outcome = "up" THEN {"settle delay", "readiness probe"} ELSE {}

EnsureDone ==
    \E c \in Contexts : \E outcome \in {"up", "noop", "raise"} :
        LET m == Machine(c)
            res == ctx[c].rpc.res
            down(invoked) == [m EXCEPT !.a.connection_ok = FALSE,
                                       !.o.start_on_failure = Some(invoked)]
        IN  /\ Answered(c, "ensure")
            /\ \/ /\ res = "ok" /\ outcome = "noop"
                  /\ Commit(c, check_tail([m EXCEPT !.a.connection_ok = TRUE], TRUE))
                  /\ UNCHANGED daemon
               \/ /\ res = "terr" \/ (res = "exc" /\ ~app.restart)
                  /\ outcome = "noop"
                  /\ Commit(c, check_tail(down(FALSE), FALSE))
                  /\ UNCHANGED daemon
               \/ /\ res = "exc" /\ app.restart /\ outcome # "raise"
                  /\ Commit(c, [down(TRUE) EXCEPT
                                 !.l.pc = "sleep", !.l.rpc = NoRpc,
                                 !.o.on_main = @ \cup start_daemon_blocks(outcome)])
                  /\ daemon' = [daemon EXCEPT !.up = IF outcome = "up" THEN TRUE ELSE @]
               \/ /\ res = "exc" /\ app.restart /\ outcome = "raise"
                  /\ Commit(c, Return([down(TRUE) EXCEPT
                                 !.a.crashed = (m.l.caller # "toggle_refresh")]))
                  /\ UNCHANGED daemon
            /\ UNCHANGED notApp

\* lines 394-396: asyncio.sleep(1.5) is over
SleepDone ==
    \E c \in Contexts :
        /\ ~app.crashed /\ ctx[c].pc = "sleep"
        /\ Commit(c, Call(Machine(c), "ensure_retry", "get_session", {}))
        /\ UNCHANGED <<daemon, notApp>>

\* lines 397-401: the second ensure_connected answers
EnsureRetryDone ==
    \E c \in Contexts :
        LET m == Machine(c)
        IN  /\ Answered(c, "ensure_retry")
            /\ Commit(c, IF Failed(c) THEN check_tail(m, FALSE)
                         ELSE check_tail([m EXCEPT !.a.connection_ok = TRUE,
                                                   !.l.restart_notes = 1], TRUE))
            /\ UNCHANGED <<daemon, notApp>>

\* _refresh_torrents, line 466 on, or its except clause, lines 481-485 (the
\* observer counts the "Refresh error" notifications of the run of failing
\* cycles)
ListDone ==
    \E c \in Contexts :
        LET m == Machine(c)
            views == ctx[c].rpc.views
        IN  /\ Answered(c, "list")
            /\ Commit(c, IF Failed(c)
                           THEN Return([m EXCEPT
                                    !.a._last_refresh_error = TRUE,
                                    !.o.error_notes =
                                        IF m.a._last_refresh_error THEN @ ELSE Count(@)])
                           ELSE completion_loop([m EXCEPT !.a.torrents = views,
                                                          !.l.torrents = views,
                                                          !.o = poll_observed(m.o, views)], 1))
            /\ UNCHANGED <<daemon, notApp>>

\* _auto_verify, lines 421-424, and the completion loop goes on
VerifyDone ==
    \E c \in Contexts :
        LET m == Machine(c)
        IN  /\ Answered(c, "verify")
            /\ Commit(c, completion_loop(
                            IF Failed(c) THEN m
                            ELSE [m EXCEPT !.a._verified_ids = @ \cup m.l.rpc.ids],
                            m.l.idx + 1))
            /\ UNCHANGED <<daemon, notApp>>

\* _auto_retry_failed, lines 437-439, and the loop goes on
RetryStartDone ==
    \E c \in Contexts :
        /\ Answered(c, "retry_start")
        /\ Commit(c, retry_loop(Machine(c), ctx[c].idx + 1))
        /\ UNCHANGED <<daemon, notApp>>

\* _auto_resume, lines 457-461, then lines 479-480
ResumeStartDone ==
    \E c \in Contexts :
        LET m == Machine(c)
        IN  /\ Answered(c, "resume_start")
            /\ Commit(c, render_finish(
                            IF Failed(c) THEN m
                            ELSE [m EXCEPT !.a._auto_started = @ \cup m.l.to_start]))
            /\ UNCHANGED <<daemon, notApp>>

\* action_toggle, lines 980-981 and 986, or its except clause
ToggleStopDone ==
    \E c \in Contexts :
        LET m == Machine(c)
            a == after_stop(m.a, Val(m.l.torrent).id, Failed(c))
        IN  /\ Answered(c, "toggle_stop")
            /\ Commit(c, IF Failed(c) THEN command_failed([m EXCEPT !.a = a], "stop")
                         ELSE refresh_all([m EXCEPT !.a = a], TRUE))
            /\ UNCHANGED <<daemon, notApp>>

\* action_toggle, lines 984-986, or its except clause
ToggleStartDone ==
    \E c \in Contexts :
        LET m == Machine(c)
            a == after_start(m.a, Val(m.l.torrent).id, Failed(c))
        IN  /\ Answered(c, "toggle_start")
            /\ Commit(c, IF Failed(c) THEN command_failed([m EXCEPT !.a = a], "start")
                         ELSE refresh_all([m EXCEPT !.a = a], TRUE))
            /\ UNCHANGED <<daemon, notApp>>

\* the daemon downloads a piece
Download ==
    \E i \in Ids :
        /\ daemon.up /\ daemon.t[i].status = "downloading"
        /\ daemon' = [daemon EXCEPT !.t[i] =
              [status |-> IF @.left = 1 THEN "seeding" ELSE "downloading", left |-> @.left - 1]]
        /\ UNCHANGED <<app, ctx, obs, notApp>>

\* a download fails
TorrentError ==
    \E i \in Ids :
        /\ daemon.up /\ daemon.t[i].status = "downloading"
        /\ daemon' = [daemon EXCEPT !.t[i].status = "error"]
        /\ UNCHANGED <<app, ctx, obs, notApp>>

\* the daemon stops answering, and answers again
DaemonDown ==
    /\ daemon.up
    /\ daemon' = [daemon EXCEPT !.up = FALSE]
    /\ UNCHANGED <<app, ctx, obs, notApp>>

DaemonUp ==
    /\ ~daemon.up
    /\ daemon' = [daemon EXCEPT !.up = TRUE]
    /\ UNCHANGED <<app, ctx, obs, notApp>>

AppIdle ==
    /\ app = NewApp(FALSE)
    /\ ctx = [c \in Contexts |-> IdleCtx]
    /\ daemon = [up |-> TRUE, t |-> [i \in Ids |-> [status |-> "stopped", left |-> 0]]]
    /\ obs = NewObs

\* the application is mounted; the daemon holds torrents not yet downloaded
AppInit ==
    /\ app = NewApp(FALSE)
    /\ ctx = [c \in Contexts |-> IdleCtx]
    /\ daemon \in [up : {TRUE},
                   t : [Ids -> {t \in DaemonTorrents :
                                   t.left = SizeUnits /\ t.status \in {"downloading", "stopped"}}]]
    /\ obs = NewObs

\* the ui sections a loaded config can hold (UIConfig.normalize keeps any
\* non-empty filter value)
LoadedUi ==
    [refresh_interval : {RefreshMin, 25, RefreshMax},
     sort_column : {None}, sort_desc : {FALSE},
     filter_text : {<<>>, <<"a">>},
     status_filter : {"any", "error", "done"},
     progress_filter : {"any", "under50", "all"}]

\* TorshApp.__init__, lines 174-178: the preferences restored from the
\* config (the filter text is not among them); no timer yet
PrefInit ==
    /\ \E u \in LoadedUi, disk_ok \in BOOLEAN, handle_call \in {"stops", "raises"} :
          app = [NewApp(FALSE) EXCEPT
                    !.mounted = FALSE, !._refresh_timer = None, !.timers = {},
                    !.refresh_interval = u.refresh_interval,
                    !.sort_column = u.sort_column, !.sort_desc = u.sort_desc,
                    !.status_filter_value = u.status_filter,
                    !.progress_filter_value = u.progress_filter,
                    !.config_ui = u, !.file_ui = u,
                    !.disk_ok = disk_ok, !.handle_call = handle_call]
    /\ ctx = [c \in Contexts |-> IdleCtx]
    /\ daemon = [up |-> TRUE, t |-> [i \in Ids |-> [status |-> "removed", left |-> 0]]]
    /\ obs = NewObs

\* on_mount, lines 279-280: the timer is armed, then the first refresh cycle
Mount ==
    LET a == [set_refresh_interval(app, app.refresh_interval) EXCEPT !.mounted = TRUE]
    IN  /\ ~app.mounted /\ ~app.crashed /\ ctx["pump"].pc = "idle"
        /\ Commit("pump", refresh_all([Machine("pump") EXCEPT !.a = a], FALSE))
        /\ UNCHANGED <<daemon, notApp>>

\* how many torrents the polls of SelectInit hold
SelectTorrents == 3

\* the polls SelectInit draws from: torrents running or stopped, not done
SelectPolls ==
    {[i \in 1..SelectTorrents |->
         [id |-> i, name |-> TorrentName(i), status |-> st[i], percent_done |-> 0]] :
       st \in [1..SelectTorrents -> {"downloading", "stopped"}]}

\* the application after a refresh cycle that polled and rendered these
\* torrents with no filter set (lines 466, 476, 479)
SelectInit ==
    /\ \E views \in SelectPolls :
          app = render_table(apply_filter([NewApp(FALSE) EXCEPT !.torrents = views]))
    /\ ctx = [c \in Contexts |-> IdleCtx]
    /\ daemon = [up |-> TRUE, t |-> [i \in Ids |-> [status |-> "stopped", left |-> SizeUnits]]]
    /\ obs = NewObs

\* ------------------------------------------------------------------------
\* daemon.py: maybe_start_daemon and _write_settings_ports. The environment
\* of a call: whether transmission-daemon runs (pgrep), whether its binary
\* is available, the occupied ports, and the content of settings.json.
\* A JSON value is a pair of its type and a number; a JSON object is a
\* function of its keys.
\* ------------------------------------------------------------------------
\* the literal 51413, line 173
PeerPort == 51413

JFalse == <<"bool", 0>>

JTrue == <<"bool", 1>>

JInt(n) == <<"int", n>>

Put(data, k, v) == [x \in DOMAIN data \cup {k} |-> IF x = k THEN v ELSE data[x]]

\* _pick_free_port as a function of the occupied ports (the ports within
\* reach of the two start ports of maybe_start_daemon are below PortMax)
RECURSIVE probe(_, _, _, _)
probe(start, port, i, occ) ==
    IF i >= Attempts THEN start
    ELSE IF port \notin occ THEN port
    ELSE probe(start, port + 1, i + 1, occ)

pick_free_port(start, occ) == probe(start, Max(1, start), 0, occ)

\* the mutant of lines 110-115: the prior content is not read
discard_settings(file) == <<>>

\* _write_settings_ports, lines 110-115: a missing file, an empty one and
\* one that does not parse give {}
parsed_settings(file) == IF file.kind = "object" THEN file.data ELSE <<>>

\* _write_settings_ports, lines 116-123. JSON that parses to something else
\* than an object (null, a number, a string, a list) makes line 117 raise
\* TypeError, before anything is written.
write_settings_ports(file, rpc_port, peer_port) ==
    IF file.kind = "nondict" THEN [file |-> file, raised |-> TRUE]
    ELSE LET data == parsed_settings(file)
             d1 == Put(data, "rpc-port", JInt(rpc_port))
             d2 == IF Truthy(peer_port)
                     THEN Put(Put(d1, "peer-port", JInt(Val(peer_port))),
                              "peer-port-random-on-start", JFalse)
                     ELSE d1
         IN  [file |-> [kind |-> "object", data |-> d2], raised |-> FALSE]

\* the mutant of lines 149-164: the running daemon is not looked for
proceeds_whether_running(autostart, available, running, which) ==
    autostart /\ available /\ which

\* maybe_start_daemon, lines 149-164: none of the four returns is taken
proceeds(autostart, available, running, which) ==
    autostart /\ available /\ ~running /\ which

\* the settings.json files sampled
SettingsSamples ==
    {[kind |-> k, data |-> <<>>] : k \in {"missing", "garbage", "nondict"}}
    \cup {[kind |-> "object", data |-> d] :
            d \in UNION {[K -> {JInt(DefaultPort), JFalse, JTrue}] :
                            K \in SUBSET {"rpc-port", "peer-port-random-on-start",
                                          "download-dir"}}}

\* maybe_start_daemon(config) is called
NewSup(autostart, available, running, which, occ, file) ==
    [pc |-> "called", autostart |-> autostart, available |-> available,
     running |-> running, which |-> which, occ |-> occ,
     rpc_port |-> DefaultPort, rpc_port0 |-> DefaultPort,
     chosen_rpc_port |-> 0, chosen_peer_port |-> 0, probe_port |-> 0,
     file |-> file, file0 |-> file,
     picks |-> 0, saves |-> 0, writes |-> 0, spawned |-> FALSE,
     \* ensure_transmission_available: its environment and what it has run
     found |-> available, install_missing |-> FALSE, mgr |-> None, found_after |-> available,
     i |-> 0, ran |-> <<>>, ok |-> None,
     \* _wait_for_rpc: the clock since its call, in hundredths of a second,
     \* the time from which the daemon accepts connections (None: never), and
     \* whether a connect was accepted
     now |-> 0, ready_at |-> None, accepted |-> FALSE]

SupIdle ==
    sup = [NewSup(FALSE, FALSE, FALSE, FALSE, {}, [kind |-> "missing", data |-> <<>>])
              EXCEPT !.pc = "idle"]

SupInit ==
    sup \in {NewSup(autostart, available, running, which, occ, file) :
                autostart \in BOOLEAN, available \in BOOLEAN, running \in BOOLEAN,
                which \in BOOLEAN, occ \in SUBSET {DefaultPort, PeerPort},
                file \in SettingsSamples}

\* the configured RPC ports sampled: the default, the literal peer port and
\* the port below it
RpcStartSamples == {DefaultPort, PeerPort - 1, PeerPort}

\* maybe_start_daemon(config) is called with each RPC port sampled, where
\* ports around the two start ports are occupied
PortsInit ==
    sup \in {[NewSup(TRUE, TRUE, running, TRUE, occ, file)
                EXCEPT !.rpc_port = p, !.rpc_port0 = p] :
                running \in BOOLEAN, p \in RpcStartSamples,
                occ \in SUBSET {DefaultPort, DefaultPort + 1, PeerPort - 1, PeerPort},
                file \in {f \in SettingsSamples :
                              f.kind = "object" => DOMAIN f.data \subseteq {"rpc-port"}}}

\* lines 149-164
SupCheck ==
    /\ sup.pc = "called"
    /\ sup' = [sup EXCEPT !.pc =
                  IF proceeds(sup.autostart, sup.available, sup.running, sup.which)
                    THEN "ports" ELSE "returned"]
    /\ UNCHANGED notSup

\* lines 167-175; save_config may raise
SupPorts ==
    \E saved \in BOOLEAN :
        LET chosen_rpc_port == pick_free_port(sup.rpc_port, sup.occ)
            chosen_peer_port == pick_free_port(PeerPort, sup.occ)
            changed == chosen_rpc_port # sup.rpc_port
        IN  /\ sup.pc = "ports"
            /\ changed \/ saved
            /\ sup' = IF changed /\ ~saved
                        THEN [sup EXCEPT !.pc = "raised", !.picks = 1,
                                         !.rpc_port = chosen_rpc_port,
                                         !.chosen_rpc_port = chosen_rpc_port]
                        ELSE [sup EXCEPT !.pc = "settings", !.picks = 2,
                                         !.rpc_port = chosen_rpc_port,
                                         !.chosen_rpc_port = chosen_rpc_port,
                                         !.chosen_peer_port = chosen_peer_port,
                                         !.saves = IF changed THEN 1 ELSE 0]
            /\ UNCHANGED notSup

\* line 178; the write may fail
SupSettings ==
    \E written \in BOOLEAN :
        LET r == write_settings_ports(sup.file, sup.chosen_rpc_port,
                                      Some(sup.chosen_peer_port))
        IN  /\ sup.pc = "settings"
            /\ sup' = IF r.raised \/ ~written THEN [sup EXCEPT !.pc = "raised"]
                      ELSE [sup EXCEPT !.pc = "launch", !.file = r.file, !.writes = 1]
            /\ UNCHANGED notSup

\* timeout=5.0 (line 206) and interval=0.25 (line 221), in hundredths
Timeout == 500

Interval == 25

\* when the launched daemon starts to accept connections on the RPC port:
\* at once, after a few intervals, just before or at the deadline, or never
ReadySamples == {None, Some(0), Some(3 * Interval), Some(Timeout - Interval), Some(Timeout)}

\* lines 180-205: mkdir may raise; a failure of the launch is caught; after
\* a launch and the sleep of line 205, _wait_for_rpc is called (line 206)
\* the mutant of line 206: the port configured before is probed
probed_configured_port(chosen_rpc_port, rpc_port0) == rpc_port0

\* line 206: _wait_for_rpc(config.rpc.host, chosen_rpc_port, ...)
probed_port(chosen_rpc_port, rpc_port0) == chosen_rpc_port

SupLaunch ==
    \E outcome \in {"mkdir raises", "launch fails", "launched"}, ready_at \in ReadySamples :
        /\ sup.pc = "launch"
        /\ outcome # "launched" => ready_at = None
        /\ sup' = [sup EXCEPT !.pc = CASE outcome = "mkdir raises" -> "raised"
                                       [] outcome = "launch fails" -> "returned"
                                       [] OTHER -> "polling",
                              !.spawned = (outcome = "launched"),
                              !.probe_port = IF outcome = "launched"
                                               THEN probed_port(sup.chosen_rpc_port,
                                                                sup.rpc_port0)
                                               ELSE 0,
                              !.ready_at = ready_at]
        /\ UNCHANGED notSup

\* the mutant of a failed connect: no time passes
frozen_after_failed_connect(now, waited) == now

\* lines 226 and 231-232: a connect that failed at once or after the socket
\* timeout (waited), then time.sleep(interval)
after_failed_connect(now, waited) == now + (IF waited THEN Interval ELSE 0) + Interval

\* line 229: the daemon accepts the connect
accepts(ready_at, now) == ready_at # None /\ Val(ready_at) <= now

\* _wait_for_rpc, lines 224-232, one pass of the loop that fails: the
\* deadline is not reached, connect raises OSError, the loop sleeps
WaitProbeFails ==
    \E waited \in BOOLEAN :
        /\ sup.pc = "polling" /\ sup.now < Timeout
        /\ ~accepts(sup.ready_at, sup.now)
        /\ sup' = [sup EXCEPT !.now = after_failed_connect(sup.now, waited)]
        /\ UNCHANGED notSup

\* lines 227-230: the connect is accepted, _wait_for_rpc returns True and
\* maybe_start_daemon returns
WaitProbeAccepted ==
    /\ sup.pc = "polling" /\ sup.now < Timeout
    /\ accepts(sup.ready_at, sup.now)
    /\ sup' = [sup EXCEPT !.accepted = TRUE, !.pc = "returned"]
    /\ UNCHANGED notSup

\* lines 224 and 233-234: the deadline is reached, _wait_for_rpc returns
\* False, and maybe_start_daemon returns
WaitTimeout ==
    /\ sup.pc = "polling" /\ ~(sup.now < Timeout)
    /\ sup' = [sup EXCEPT !.pc = "returned"]
    /\ UNCHANGED notSup

\* _install_transmission, lines 38-52: the steps of a package manager
install_steps(mgr) ==
    CASE mgr = "apt-get" -> <<"apt-get update", "apt-get install">>
      [] mgr = "apt"     -> <<"apt update", "apt install">>
      [] mgr = "brew"    -> <<"brew install">>
      [] mgr = "dnf"     -> <<"dnf install">>
      [] mgr = "yum"     -> <<"yum install">>
      [] mgr = "pacman"  -> <<"pacman -Sy">>
      [] mgr = "zypper"  -> <<"zypper install">>
      [] OTHER           -> <<>>

\* the mutant of the installation's conditions: the package manager is
\* tried whether auto-install is enabled or not
install_attempted_when_disabled(found, install_missing, mgr) == ~found /\ mgr # None

\* ensure_transmission_available, lines 72-81: none of the three returns
\* is taken, the installation is attempted
install_attempted(found, install_missing, mgr) ==
    ~found /\ install_missing /\ mgr # None

\* the mutant of line 61: a failed step does not end the chain
step_never_ends_chain(returncode) == FALSE

\* line 61: result.returncode != 0
step_ends_chain(returncode) == returncode # 0

\* maybe_start_daemon, lines 149-153: with autostart,
\* ensure_transmission_available is called; it returns at once (lines 72-81)
\* or goes on to _install_transmission
EnsureAvailable ==
    /\ sup.pc = "entered"
    /\ sup' = IF ~sup.autostart THEN [sup EXCEPT !.pc = "returned"]
              ELSE IF install_attempted(sup.found, sup.install_missing, sup.mgr)
                     THEN IF install_steps(Val(sup.mgr)) = <<>>
                            THEN [sup EXCEPT !.pc = "called", !.ok = Some(FALSE),
                                             !.available = FALSE]
                            ELSE [sup EXCEPT !.pc = "install", !.i = 1]
                     ELSE [sup EXCEPT !.pc = "called", !.available = sup.found]
    /\ UNCHANGED notSup

\* _install_transmission, lines 59-66: subprocess.run of the next step ends
\* with an exit code, or raises; then ensure_transmission_available,
\* lines 83-88, and maybe_start_daemon goes on at line 153
InstallStep ==
    \E outcome \in {"exit 0", "exit 1", "raises"} :
        LET steps == install_steps(Val(sup.mgr))
            returncode == IF outcome = "exit 0" THEN 0 ELSE 1
            ran == IF outcome = "raises" THEN sup.ran
                   ELSE Append(sup.ran, [step |-> steps[sup.i], code |-> returncode])
            ended(ok) == [sup EXCEPT !.pc = "called", !.ran = ran, !.ok = Some(ok),
                                     !.available = ok /\ sup.found_after,
                                     !.which = sup.found_after]
        IN  /\ sup.pc = "install"
            /\ sup' = IF outcome = "raises" \/ step_ends_chain(returncode) THEN ended(FALSE)
                      ELSE IF sup.i = Len(steps) THEN ended(TRUE)
                      ELSE [sup EXCEPT !.ran = ran, !.i = @ + 1]
            /\ UNCHANGED notSup

\* the package managers sampled: one with two steps, one with one step
ManagerSamples == {None, Some("apt-get"), Some("brew")}

\* maybe_start_daemon(config) is called where the binary may be missing
InstallInit ==
    sup \in {[NewSup(autostart, FALSE, running, found, occ, [kind |-> "missing", data |-> <<>>])
                EXCEPT !.pc = "entered", !.found = found, !.install_missing = install_missing,
                       !.mgr = mgr, !.found_after = found_after] :
                autostart \in BOOLEAN, running \in BOOLEAN, found \in BOOLEAN,
                install_missing \in BOOLEAN, mgr \in ManagerSamples,
                found_after \in BOOLEAN, occ \in SUBSET {DefaultPort}}

\* ------------------------------------------------------------------------
\* ui/app.py: _render_table and _update_torrent_row over a row that is shown
\* ------------------------------------------------------------------------
\* the keys of the snapshot _torrent_cells builds (lines 577-585)
SnapshotFields == {"name", "progress", "eta", "rate_down", "rate_up", "ratio", "status"}

\* two values a field can have in two polls
FieldValues == {"a", "b"}

RowSnapshots == [SnapshotFields -> FieldValues]

\* the column whose cell shows a field (lines 601-612)
column_of(field) ==
    CASE field = "rate_down" -> "down"
      [] field = "rate_up"   -> "up"
      [] OTHER               -> field

\* lines 597-598: changed(field)
field_changed(cached, snap, field) == IsNone(cached) \/ Val(cached)[field] # snap[field]

\* lines 600-612: the columns table.update_cell is called for
update_torrent_row(cached, snap) ==
    LET when(test, columns) == IF test THEN columns ELSE {}
    IN  when(field_changed(cached, snap, "name"), {"name"})
        \cup when(field_changed(cached, snap, "progress") \/ field_changed(cached, snap, "eta"),
                  {"progress", "eta"})
        \cup when(field_changed(cached, snap, "rate_down"), {"down"})
        \cup when(field_changed(cached, snap, "rate_up"), {"up"})
        \cup when(field_changed(cached, snap, "ratio"), {"ratio"})
        \cup when(field_changed(cached, snap, "status"), {"status"})

RowIdle == rowCached = None /\ rowSnapshot = None /\ rowPushed = None

\* a row of the table, with the snapshot cached for it by an earlier poll
\* (or with none), and the snapshot of the torrent in the new poll
RowInit ==
    /\ rowCached \in {None} \cup {Some(c) : c \in RowSnapshots}
    /\ rowSnapshot \in {Some(n) : n \in RowSnapshots}
    /\ rowPushed = None

\* _render_table, lines 532-535, for the row: the update is called when the
\* snapshots differ, and the new snapshot is cached
RenderRow ==
    /\ rowSnapshot # None /\ rowPushed = None
    /\ rowPushed' = Some(IF rowCached # rowSnapshot
                           THEN update_torrent_row(rowCached, Val(rowSnapshot))
                           ELSE {})
    /\ rowCached' = rowSnapshot
    /\ UNCHANGED <<rowSnapshot, notRow>>

\* ------------------------------------------------------------------------
\* Specifications
\* ------------------------------------------------------------------------
MapNext == MapTorrent

InitMap == MapInit /\ PortIdle /\ RowIdle /\ SupIdle /\ RpcIdle /\ CfgIdle /\ AppIdle

SpecMap == InitMap /\ [][MapNext]_vars

PortNext == PickFreePort \/ BindOk \/ BindBusy \/ BindOverflow \/ BindExhausted

InitPort == MapIdle /\ PortIdle /\ RowIdle /\ SupIdle /\ RpcIdle /\ CfgIdle /\ AppIdle

SpecPort == InitPort /\ [][PortNext]_vars

RpcNext ==
    \/ RpcCall \/ RpcInvoke \/ RpcClientFail \/ RpcThreadOk \/ RpcThreadFail \/ RpcSleepDone
    \/ RpcDeadline
    \/ RpcOtherCall \/ RpcOtherConstruct \/ RpcOtherReset \/ RpcOtherEnd

InitRpc == MapIdle /\ PortIdle /\ RowIdle /\ SupIdle /\ RpcInit /\ CfgIdle /\ AppIdle

SpecRpc == InitRpc /\ [][RpcNext]_vars

\* one call of _rpc with enough retries for the backoff to reach its cap
BackoffNext ==
    \/ RpcCallLong \/ RpcInvoke \/ RpcClientFail \/ RpcThreadOk \/ RpcThreadFail
    \/ RpcSleepDone \/ RpcDeadline

SpecBackoff == InitRpc /\ [][BackoffNext]_vars

CfgNext == SaveConfig \/ LoadConfig \/ LoadConfigAgain

InitConfig == MapIdle /\ PortIdle /\ RowIdle /\ SupIdle /\ RpcIdle /\ CfgInit /\ AppIdle

SpecConfig == InitConfig /\ [][CfgNext]_vars

\* the connection checks of the timer and of the refresh key, over a daemon
\* that stops answering and answers again
ConnNext ==
    \/ TimerTick \/ ActionRefresh \/ DaemonExec \/ RpcFails
    \/ EnsureDone \/ SleepDone \/ EnsureRetryDone \/ ListDone
    \/ DaemonDown \/ DaemonUp

InitConn ==
    /\ MapIdle /\ PortIdle /\ RowIdle /\ SupIdle /\ RpcIdle /\ CfgIdle
    /\ app \in {NewApp(restart) : restart \in BOOLEAN}
    /\ ctx = [c \in Contexts |-> IdleCtx]
    /\ daemon = [up |-> TRUE,
                 t |-> [i \in Ids |-> [status |-> "downloading", left |-> SizeUnits]]]
    /\ obs = NewObs

SpecConn == InitConn /\ [][ConnNext]_vars

\* the refresh cycles of the timer beside the operator's refresh key, over
\* a daemon that answers, downloads, and fails downloads
AppNext ==
    \/ TimerTick \/ ActionRefresh
    \/ DaemonExec \/ EnsureDone \/ ListDone \/ VerifyDone \/ RetryStartDone
    \/ Download \/ TorrentError

InitApp ==
    /\ MapIdle /\ PortIdle /\ RowIdle /\ SupIdle /\ RpcIdle /\ CfgIdle
    /\ app = NewApp(FALSE)
    /\ ctx = [c \in Contexts |-> IdleCtx]
    /\ daemon = [up |-> TRUE,
                 t |-> [i \in Ids |-> [status |-> "downloading", left |-> SizeUnits]]]
    /\ obs = NewObs

Spec == InitApp /\ [][AppNext]_vars

\* the application is mounted over a daemon whose torrents are partly
\* downloaded already
SeededInit ==
    /\ app = NewApp(FALSE)
    /\ ctx = [c \in Contexts |-> IdleCtx]
    /\ daemon \in [up : {TRUE}, t : [Ids -> {t \in DaemonTorrents : t.status # "error"}]]
    /\ obs = NewObs

\* the refresh cycles of the timer and of the refresh key over such a daemon
VerifyNext ==
    \/ TimerTick \/ ActionRefresh
    \/ DaemonExec \/ EnsureDone \/ ListDone \/ VerifyDone \/ ResumeStartDone
    \/ Download

InitVerify == MapIdle /\ PortIdle /\ RowIdle /\ SupIdle /\ RpcIdle /\ CfgIdle /\ SeededInit

SpecVerify == InitVerify /\ [][VerifyNext]_vars

\* the refresh cycles of the timer beside the operator's toggle key
PauseNext ==
    \/ TimerTick \/ ActionToggle \/ RowSelected
    \/ DaemonExec \/ EnsureDone \/ ListDone \/ ResumeStartDone
    \/ ToggleStopDone \/ ToggleStartDone

InitPause == MapIdle /\ PortIdle /\ RowIdle /\ SupIdle /\ RpcIdle /\ CfgIdle /\ AppInit

SpecPause == InitPause /\ [][PauseNext]_vars

\* the refresh cycles of the timer beside the operator's refresh and filter
\* keys, over a daemon that answers and downloads
FilterNext ==
    \/ TimerTick \/ ActionRefresh \/ ActionStatusFilter \/ ActionProgressFilter
    \/ DaemonExec \/ EnsureDone \/ ListDone \/ VerifyDone \/ ResumeStartDone
    \/ Download

InitFilter == MapIdle /\ PortIdle /\ RowIdle /\ SupIdle /\ RpcIdle /\ CfgIdle /\ AppInit

SpecFilter == InitFilter /\ [][FilterNext]_vars

\* the operator's refresh, toggle and delete keys and the worker of a
\* confirmed removal, over a daemon that answers, with operator RPCs that
\* can time out
UserPausedNext ==
    \/ ActionRefresh \/ ActionToggle \/ RowSelected \/ ActionDelete \/ ConfirmDismiss
    \/ DaemonExec \/ OperatorRpcFails \/ EnsureDone \/ ListDone \/ ResumeStartDone
    \/ ToggleStopDone \/ ToggleStartDone \/ RemoveDone

InitUserPaused ==
    /\ MapIdle /\ PortIdle /\ RowIdle /\ SupIdle /\ RpcIdle /\ CfgIdle
    /\ app = NewApp(FALSE)
    /\ ctx = [c \in Contexts |-> IdleCtx]
    /\ daemon = [up |-> TRUE,
                 t |-> [i \in Ids |-> [status |-> "downloading", left |-> SizeUnits]]]
    /\ obs = NewObs

SpecUserPaused == InitUserPaused /\ [][UserPausedNext]_vars

\* the operator's keys and the removal worker over torrents of which some
\* are complete at start, with operator RPCs that can time out
CommandNext ==
    \/ ActionRefresh \/ ActionToggle \/ RowSelected \/ ActionDelete \/ ConfirmDismiss
    \/ DaemonExec \/ OperatorRpcFails \/ EnsureDone \/ ListDone \/ VerifyDone
    \/ ResumeStartDone \/ ToggleStopDone \/ ToggleStartDone \/ RemoveDone

\* a complete torrent that seeds and an incomplete one that is stopped
CommandInit ==
    /\ app = NewApp(FALSE)
    /\ ctx = [c \in Contexts |-> IdleCtx]
    /\ daemon = [up |-> TRUE,
                 t |-> [i \in Ids |-> IF i = 1 THEN [status |-> "seeding", left |-> 0]
                                      ELSE [status |-> "stopped", left |-> SizeUnits]]]
    /\ obs = NewObs

InitCommand == MapIdle /\ PortIdle /\ RowIdle /\ SupIdle /\ RpcIdle /\ CfgIdle /\ CommandInit

SpecCommand == InitCommand /\ [][CommandNext]_vars

\* the operator opens and closes the name filter, the removal confirmation
\* and the help screen; the callback of a dismissal can raise
DepthNext ==
    \/ ActionRefresh \/ ActionFilter \/ FilterDismiss \/ ActionHelp \/ HelpDismiss
    \/ ActionDelete \/ ConfirmDismiss \/ ConfirmDismissRaises \/ RemoveDone
    \/ DaemonExec \/ EnsureDone \/ ListDone

SpecDepth == InitUserPaused /\ [][DepthNext]_vars

\* the refresh cycles of the timer while the operator opens and closes the
\* name filter and the help screen, over a daemon that answers and downloads
ModalNext ==
    \/ TimerTick \/ ActionFilter \/ FilterDismiss \/ ActionHelp \/ HelpDismiss
    \/ DaemonExec \/ EnsureDone \/ ListDone \/ VerifyDone \/ Download

SpecModal == InitApp /\ [][ModalNext]_vars

\* the refresh cycles of the timer alone, one after the other, over a
\* daemon that stops answering and answers again
ErrNext ==
    \/ TimerTick \/ DaemonExec \/ RpcFails \/ EnsureDone \/ ListDone
    \/ DaemonDown \/ DaemonUp

SpecErr == InitApp /\ [][ErrNext]_vars

\* one call of maybe_start_daemon in each environment sampled
SupNext ==
    \/ SupCheck \/ SupPorts \/ SupSettings \/ SupLaunch
    \/ WaitProbeFails \/ WaitProbeAccepted \/ WaitTimeout

InitSup == MapIdle /\ PortIdle /\ RowIdle /\ SupInit /\ RpcIdle /\ CfgIdle /\ AppIdle

SpecSup == InitSup /\ [][SupNext]_vars

\* one call of maybe_start_daemon from its first line, in each environment
\* sampled for ensure_transmission_available
InstallNext ==
    \/ EnsureAvailable \/ InstallStep
    \/ SupCheck \/ SupPorts \/ SupSettings \/ SupLaunch
    \/ WaitProbeFails \/ WaitProbeAccepted \/ WaitTimeout

InitInstall == MapIdle /\ PortIdle /\ RowIdle /\ InstallInit /\ RpcIdle /\ CfgIdle /\ AppIdle

SpecInstall == InitInstall /\ [][InstallNext]_vars

\* one call of maybe_start_daemon for each configured RPC port sampled
PortsNext ==
    \/ SupCheck \/ SupPorts \/ SupSettings \/ SupLaunch
    \/ WaitProbeFails \/ WaitProbeAccepted \/ WaitTimeout

InitPorts == MapIdle /\ PortIdle /\ RowIdle /\ PortsInit /\ RpcIdle /\ CfgIdle /\ AppIdle

SpecPorts == InitPorts /\ [][PortsNext]_vars

\* maybe_start_daemon is straight-line synchronous code: once called, its
\* next statement is executed
SpecSupLive == InitSup /\ [][SupNext]_vars /\ WF_vars(SupNext)

\* one call of load_config over each document sampled
LoadNext == LoadYaml \/ MergeSections \/ NormalizeLoaded \/ SaveLoaded

InitLoad ==
    /\ MapIdle /\ PortIdle /\ RowIdle /\ SupIdle /\ RpcIdle /\ AppIdle
    /\ cfg = None /\ cfgFile = None /\ cfgWrites = 0
    /\ cfgLoaded = None /\ cfgLoaded2 = None /\ cfgPc = "idle"
    /\ cfgDoc \in DocSamples

SpecLoad == InitLoad /\ [][LoadNext]_vars

\* the operator's filter, sort and cursor keys over a rendered poll
\* the application from __init__ on: mount, then the operator changes the
\* preferences
PrefNext ==
    \/ Mount \/ ActionFaster \/ ActionSlower \/ ActionSort
    \/ ActionStatusFilter \/ ActionProgressFilter \/ ActionFilter \/ FilterDismiss
    \/ DaemonExec \/ EnsureDone \/ ListDone

InitPrefs == MapIdle /\ PortIdle /\ RowIdle /\ SupIdle /\ RpcIdle /\ CfgIdle /\ PrefInit

SpecPrefs == InitPrefs /\ [][PrefNext]_vars

SelectNext == ActionStatusFilter \/ ActionProgressFilter \/ ActionSort \/ RowSelected

InitSelect == MapIdle /\ PortIdle /\ RowIdle /\ SupIdle /\ RpcIdle /\ CfgIdle /\ SelectInit

SpecSelect == InitSelect /\ [][SelectNext]_vars

RowNext == RenderRow

InitRow == MapIdle /\ PortIdle /\ RowInit /\ SupIdle /\ RpcIdle /\ CfgIdle /\ AppIdle

SpecRow == InitRow /\ [][RowNext]_vars

\* ------------------------------------------------------------------------
\* C1
\* ------------------------------------------------------------------------
\* C1: for every record the daemon can return, the percent_done that
\* _map_torrent derives lies in [0,100].
C1_PercentInRange ==
    view # None => (0 <= Val(view) /\ Val(view) <= Hundred * Hundred)

\* ------------------------------------------------------------------------
\* C8
\* ------------------------------------------------------------------------
\* the ports of p, p+1, ..., p+9 that can be bound
Bindable(p, occ) == {q \in p..(p + Attempts - 1) : q >= 1 /\ q <= PortMax /\ q \notin occ}

FirstBindable(p, occ) == CHOOSE q \in Bindable(p, occ) : \A r \in Bindable(p, occ) : q <= r

\* C8: port selection from start port p probes p, p+1, ..., p+9 in order and
\* returns the first that can be bound, returns p if none of the ten can, and
\* always ends after at most 10 bind tests.
C8_PortSelection ==
    /\ ppState # "raised"
    /\ Len(ppProbed) <= Attempts
    /\ \A k \in 1..Len(ppProbed) : ppProbed[k] = ppStart + k - 1
    /\ ppState = "returned" =>
          ppRet = IF Bindable(ppStart, ppOcc) # {} THEN FirstBindable(ppStart, ppOcc) ELSE ppStart

\* ------------------------------------------------------------------------
\* C10
\* ------------------------------------------------------------------------
\* the attempts of the call that invoked the daemon method
Invocations == {k \in 1..Len(rpcLog) : rpcLog[k].invoked}

\* the retry count the call runs with
EffectiveRetries == IF IsNone(rpcRetries) THEN DefaultRetries ELSE Val(rpcRetries)

\* C10: a call with retry count r invokes the daemon method at most r+1
\* times, returns the result of the first attempt that succeeds and makes no
\* attempt after it, and if all r+1 attempts fail raises the error of the
\* last attempt.
C10_BoundedRetries ==
    rpcPc # "idle" =>
        /\ Cardinality(Invocations) <= EffectiveRetries + 1
        /\ Len(rpcLog) <= EffectiveRetries + 1
        /\ \A k \in 1..(Len(rpcLog) - 1) : rpcLog[k].out \in {"TransmissionError", "Exception"}
        /\ rpcPc = "returned" =>
              /\ rpcLog[Len(rpcLog)].out = "ok"
              /\ rpcOut = Some([result |-> Len(rpcLog) - 1])
        /\ rpcPc = "raised" =>
              /\ Len(rpcLog) = EffectiveRetries + 1
              /\ rpcLog[Len(rpcLog)].out \in {"TransmissionError", "Exception"}
              /\ rpcOut = Some(Err(rpcLog[Len(rpcLog)].out, EffectiveRetries))

\* a call with two retries whose three attempts all failed, with errors of
\* both classes, has raised
C10_Witness ==
    /\ rpcPc = "raised"
    /\ rpcRetries = Some(2)
    /\ Len(rpcLog) = 3
    /\ rpcLog[1].out = "Exception"
    /\ rpcLog[3].out = "TransmissionError"

\* ------------------------------------------------------------------------
\* C11
\* ------------------------------------------------------------------------
\* the clients the attempts before the k-th ran on, or failed to construct
EarlierClients(k) == UNION {rpcLog[j].client : j \in 1..(k - 1)}

\* C11: every attempt that follows a failed attempt runs on a client
\* constructed after that failure, never on a handle an earlier attempt of
\* the call used; a call that has exhausted its attempts with no other call
\* in flight leaves no cached handle.
C11_HandleClearedAfterFailure ==
    /\ \A k \in 2..Len(rpcLog) :
          rpcLog[k].invoked =>
              \A c \in EarlierClients(k) : Val(rpcLog[k].client) > c
    /\ rpcPc = "raised" /\ ~rpcOther /\ rpcLog # <<>> => IsNone(rpcClient)

\* three attempts failed on three clients, the first of them the cached one,
\* and the call has raised with no handle left
C11_Witness ==
    /\ rpcPc = "raised" /\ ~rpcOther /\ IsNone(rpcClient)
    /\ Len(rpcLog) = 3
    /\ rpcLog[1].client = Some(0)
    /\ \A k \in 1..3 : rpcLog[k].invoked
    /\ Cardinality({rpcLog[k].client : k \in 1..3}) = 3

\* ------------------------------------------------------------------------
\* C9
\* ------------------------------------------------------------------------
\* C9: saving a config c and loading it yields the normalization of c field
\* for field, with rpc.timeout >= 1.0 and ui.refresh_interval in [0.5, 30];
\* loading again yields the same value.
C9_ConfigRoundTrip ==
    /\ cfgPc \in {"loaded", "loaded2"} =>
          /\ Val(cfgLoaded) = normalize(Val(cfg))
          /\ Val(cfgLoaded).rpc.timeout >= TimeoutMin
          /\ Val(cfgLoaded).ui.refresh_interval >= RefreshMin
          /\ Val(cfgLoaded).ui.refresh_interval <= RefreshMax
    /\ cfgPc = "loaded2" => cfgLoaded2 = cfgLoaded

\* a config that normalization changes (timeout below 1.0, blank user name,
\* padded host, port out of range) was saved, written and loaded twice
C9_Witness ==
    /\ cfgPc = "loaded2"
    /\ Val(cfg).rpc.timeout < TimeoutMin
    /\ Val(cfg).rpc.username = Some(<<>>)
    /\ Val(cfg).rpc.host = <<" ", "h", " ">>
    /\ Val(cfg).rpc.port > PortMax
    /\ Val(cfg) # normalize(Val(cfg))
    /\ cfgWrites = 1

\* ------------------------------------------------------------------------
\* Claims about the connection supervisor (_check_connection)
\* ------------------------------------------------------------------------
\* C6: from the connected state, once one or more consecutive connection
\* checks have failed, exactly one "Connection lost" notification has been
\* emitted, by the first of them; the failed checks after it emit none.
C6_OneConnectionLost ==
    obs.failed_checks >= 1 => obs.lost_notes = 1

AllIdle == \A c \in Contexts : ctx[c].pc = "idle"

\* C3: once the cycles in flight are over, a torrent that one poll showed
\* below 100% and a later poll showed at 100% has had exactly one completed
\* notification, and no torrent has had more than one automatic verify RPC.
C3_OneCompletedNotification ==
    AllIdle =>
        \A i \in Ids :
            /\ i \in obs.crossed => obs.completed_notes[i] = 1
            /\ obs.completed_notes[i] <= 1
            /\ obs.verify_rpcs[i] <= 1

\* C4: the automatic retry has issued at most 3 start RPCs for a torrent
\* since a cycle last observed it out of the error state (or at 100%),
\* however the refresh cycles interleave.
C4_AtMostThreeRetries ==
    \A i \in Ids : obs.retry_starts[i] <= RetryLimit

\* C5: no refresh cycle issues an automatic start for a torrent whose stop
\* RPC from the toggle action has reached the daemon, until the operator
\* resumes it with the toggle action.
C5_NoAutoStartAfterPause ==
    obs.auto_after_pause = {}

\* ------------------------------------------------------------------------
\* Claims about the row cache (_render_table)
\* ------------------------------------------------------------------------
\* a refresh cycle that fetched the torrent list ends in this step
RefreshCompleted ==
    \E c \in Contexts :
        /\ ctx[c].pc \in {"list", "verify", "retry_start", "resume_start"}
        /\ ctx'[c].pc = "idle"
        /\ ~app'._last_refresh_error

\* C2 as the specification states it: after every refresh cycle that fetched
\* the torrent list, the keys of the row cache are the ids that poll
\* returned, whatever filters are active.
C2_CacheKeysArePollIds ==
    [][RefreshCompleted => DOMAIN app'._row_cache = ViewIds(app'.torrents)]_vars

\* C2, amended: after every refresh cycle that fetched the torrent list, the
\* keys of the row cache are the ids of the torrents the table displays:
\* those of self.filtered when a torrent passes the filters, those of
\* self.torrents otherwise.
C2_CacheKeysAreDisplayedIds ==
    [][RefreshCompleted =>
          DOMAIN app'._row_cache =
              IF app'.filtered # <<>> THEN ViewIds(app'.filtered)
              ELSE ViewIds(app'.torrents)]_vars

\* a cycle has rendered while the filters keep a polled torrent out
C2_Witness ==
    /\ AllIdle /\ ~app._last_refresh_error
    /\ app.filtered # <<>> /\ Len(app.filtered) < Len(app.torrents)
    /\ DOMAIN app._row_cache = ViewIds(app.filtered)
    /\ app.status_filter_value # "any"

\* ------------------------------------------------------------------------
\* C12
\* ------------------------------------------------------------------------
\* a refresh cycle is in progress in context c: refresh_all has passed its
\* modal test and has not returned
InRefresh(c) == ctx[c].pc # "idle" /\ ctx[c].caller \in {"refresh_all", "toggle_refresh"}

\* C12: at no time are two executions of refresh_all in progress together,
\* whether the timer, the refresh key or the refresh after an operator
\* command started them.
C12_NoConcurrentRefresh == ~(InRefresh("timer") /\ InRefresh("pump"))

\* ------------------------------------------------------------------------
\* C13
\* ------------------------------------------------------------------------
\* C13: while a modal screen is open, whichever it is, a tick of the
\* refresh timer is skipped entirely: no refresh cycle starts (no connection
\* check, no fetch, no update of the table or of the caches).
C13_TickSkippedWhileModal ==
    [][app.screen_stack # <<>> /\ ctx["timer"].pc = "idle"
          => ctx'["timer"].pc = "idle"]_vars

\* ------------------------------------------------------------------------
\* C14
\* ------------------------------------------------------------------------
\* the first ensure_connected of c's connection check has failed and the
\* check goes on
FirstCheckFailed(c) ==
    /\ ctx[c].pc = "ensure" /\ ctx[c].rpc.at = "done" /\ ctx[c].rpc.res # "ok"
    /\ ctx'[c] # ctx[c]

\* C14: whenever the first ensure_connected of a connection check fails,
\* whatever the kind of failure, the check invokes maybe_start_daemon when
\* auto-restart is enabled (and then, the routine having returned, waits the
\* grace period before its one retry), and does not invoke it when
\* auto-restart is disabled.
C14_RestartOnAnyFailure ==
    [][\A c \in Contexts :
          FirstCheckFailed(c) =>
              /\ obs'.start_on_failure = Some(app.restart)
              /\ app.restart /\ ~app'.crashed => ctx'[c].pc = "sleep"]_vars

\* ------------------------------------------------------------------------
\* C15
\* ------------------------------------------------------------------------
\* C15: a maximal run of consecutive refresh cycles whose torrent fetch or
\* stats fetch failed produces at most one "Refresh error" notification.
\* (A cycle ends the run when both its fetches succeeded, or when its
\* connection check failed and it fetched nothing.)
C15_OneErrorPerStreak == obs.error_notes <= 1

\* ------------------------------------------------------------------------
\* C16
\* ------------------------------------------------------------------------
\* C16: no step of the refresh cycle the timer runs lets an exception leave
\* refresh_all, whatever fails inside it.
C16_RefreshNeverRaises ==
    [][ctx'["timer"] # ctx["timer"] => ~app'.crashed]_vars

\* ------------------------------------------------------------------------
\* C17
\* ------------------------------------------------------------------------
\* C17: when transmission-daemon is already running at a call of
\* maybe_start_daemon, the call selects no port, leaves config.rpc.port as it
\* was and does not save the config, does not write settings.json, and
\* spawns no process.
C17_RunningDaemonLeftAlone ==
    sup.running /\ sup.pc # "idle" =>
        /\ sup.picks = 0 /\ sup.rpc_port = DefaultPort /\ sup.saves = 0
        /\ sup.writes = 0 /\ sup.file = sup.file0
        /\ ~sup.spawned

\* the call has returned past the tests of autostart and of the binary
C17_Witness ==
    /\ sup.running /\ sup.autostart /\ sup.available /\ sup.which
    /\ sup.pc = "returned"

\* ------------------------------------------------------------------------
\* C18
\* ------------------------------------------------------------------------
\* the keys of the settings object before and after the write
KeysBefore == DOMAIN sup.file0.data

KeysAfter == DOMAIN sup.file.data

\* the keys outside ports that the write has added, dropped or changed
Touched(ports) ==
    {k \in (KeysBefore \cup KeysAfter) \ ports :
        \/ k \notin KeysBefore \/ k \notin KeysAfter
        \/ sup.file.data[k] # sup.file0.data[k]}

\* C18 as the specification states it: the write adds or overwrites only
\* the keys rpc-port and peer-port; every other key of the file is present
\* afterwards with the value it had.
C18_OnlyPortKeysWritten ==
    sup.writes > 0 => Touched({"rpc-port", "peer-port"}) = {}

\* C18, amended: the write adds or overwrites only the keys rpc-port,
\* peer-port and peer-port-random-on-start; every other key of the JSON
\* object the file held is present afterwards with the value it had.
C18_PortAndRandomKeysWritten ==
    sup.writes > 0 /\ sup.file0.kind = "object" =>
        /\ Touched({"rpc-port", "peer-port", "peer-port-random-on-start"}) = {}
        /\ sup.file.data["rpc-port"] = JInt(sup.chosen_rpc_port)
        /\ sup.file.data["peer-port"] = JInt(sup.chosen_peer_port)
        /\ sup.file.data["peer-port-random-on-start"] = JFalse

\* a file with another key and a random peer port has been rewritten
C18_Witness ==
    /\ sup.writes > 0 /\ sup.file0.kind = "object"
    /\ {"download-dir", "peer-port-random-on-start"} \subseteq KeysBefore
    /\ sup.file0.data["peer-port-random-on-start"] = JTrue
    /\ "download-dir" \in KeysAfter

\* ------------------------------------------------------------------------
\* C19
\* ------------------------------------------------------------------------
\* C19: load_config raises for no content of the config file: for
\* unparseable YAML, for a top level or a section that is no mapping, and
\* for fields of the wrong type it returns a config.
C19_LoadNeverFails == cfgDoc.pc # "raised"

\* ------------------------------------------------------------------------
\* C20
\* ------------------------------------------------------------------------
\* C20: when the daemon answers an attempt of _rpc with a request-level
\* error (a TransmissionError raised by the method), the call is not issued
\* again: no attempt follows that one.
C20_ProtocolErrorNotRetried ==
    \A k \in 1..Len(rpcLog) :
        rpcLog[k].invoked /\ rpcLog[k].out = "TransmissionError" =>
            \A j \in (k + 1)..Len(rpcLog) : ~rpcLog[j].invoked

\* ------------------------------------------------------------------------
\* C21
\* ------------------------------------------------------------------------
RpcFinished(pc) == pc \in {"returned", "raised", "timeout"}

\* C21: once the deadline of a call has run out, no further attempt of the
\* call starts, and the call ends in no other way than with the timeout
\* error of the deadline, which is neither of the errors an attempt raises.
C21_DeadlineBoundsCall ==
    [][rpcDeadline' = "elapsed" =>
          /\ rpcAttempt' = rpcAttempt
          /\ RpcFinished(rpcPc') =>
                /\ rpcPc' = "timeout"
                /\ Val(rpcOut').class = "TimeoutError"]_vars

\* ------------------------------------------------------------------------
\* C22
\* ------------------------------------------------------------------------
\* the value a record reports under one of two names of a field
Reported(a, b) == IF a # None THEN a ELSE b

Positive(o) == o # None /\ Val(o) > 0

\* the completion fraction a record reports: percentDone, else progress,
\* else nothing done
ReportedFraction(t) ==
    IF t.percentDone # None THEN Val(t.percentDone)
    ELSE IF t.progress # None THEN Val(t.progress) ELSE 0

\* C22: a record that reports a sizeWhenDone above 0 (under either of its
\* names) and a leftUntilDone,
\* 0 included, gets the percentage clamp(0, 100, (sizeWhenDone -
\* leftUntilDone) / sizeWhenDone * 100); every other record gets its
\* reported fraction times 100 when that is at most 1.0, and the reported
\* value itself when it is above 1.
C22_PercentDerivation ==
    view # None =>
        LET t == Val(rec)
            size == IF Positive(t.sizeWhenDone) THEN t.sizeWhenDone ELSE t.size_when_done
            left == Reported(t.leftUntilDone, t.left_until_done)
            raw == ReportedFraction(t)
        IN  Val(view) =
              IF size # None /\ Val(size) > 0 /\ left # None
                THEN Max(0, Min(Hundred * Hundred,
                                ((Val(size) - Val(left)) * Hundred * Hundred) \div Val(size)))
                ELSE IF raw <= Hundred THEN raw * Hundred ELSE raw

\* ------------------------------------------------------------------------
\* C23
\* ------------------------------------------------------------------------
\* C23: no daemon-facing operation of a refresh cycle or of an operator
\* action runs in the main cooperative context: the RPC calls, and the
\* settle delay and the readiness probing of a restart by the connection
\* check, all run in a worker.
C23_NothingBlocksMain == obs.on_main = {}

\* ------------------------------------------------------------------------
\* C24
\* ------------------------------------------------------------------------
\* C24: when a row that is shown is reconciled against a new snapshot, the
\* cell of a field is pushed exactly when that field differs from the cached
\* snapshot: the cell of an unchanged field is never pushed again, and a row
\* with no changed field gets no cell update.
C24_OnlyChangedCellsPushed ==
    [][rowPushed = None /\ rowPushed' # None =>
          \A field \in SnapshotFields :
              column_of(field) \in Val(rowPushed') <=>
                  (rowCached = None \/ Val(rowCached)[field] # Val(rowSnapshot)[field])]_vars

\* ------------------------------------------------------------------------
\* C25
\* ------------------------------------------------------------------------
\* a status or progress filter key was handled
FilterChanged ==
    \/ app'.status_filter_value # app.status_filter_value
    \/ app'.progress_filter_value # app.progress_filter_value

\* C25: after a filter change, a selected id that is still in the filtered
\* set is unchanged; one that is not is replaced by the id of the first row
\* of the displayed (filtered and sorted) view, or by none when that view is
\* empty.
C25_SelectionFallsToFirstRow ==
    [][FilterChanged /\ app.selected_id # None =>
          LET data == sorted(app', displayed(app'))
          IN  app'.selected_id =
                IF Val(app.selected_id) \in ViewIds(app'.filtered) THEN app.selected_id
                ELSE IF data # <<>> THEN Some(data[1].id) ELSE None]_vars

\* ------------------------------------------------------------------------
\* C26
\* ------------------------------------------------------------------------
\* a polled view shows its torrent in the error state below 100%
InErrorStreak(t) == has_error(t.status) /\ t.percent_done < Full

\* the list a refresh cycle polled, while the cycle is under way
PolledBy(c) == IF ctx[c].torrents # <<>> THEN ctx[c].torrents ELSE ctx[c].rpc.views

\* C26: the retry counter of a torrent is cleared by the end of the refresh
\* cycle that polled it out of the error state, and it is never cleared
\* while the latest poll shows the torrent in error below 100%.
C26_CounterClearedOutsideError ==
    [][/\ \A c \in Contexts :
             ctx[c].pc # "idle" /\ ctx'[c].pc = "idle" /\ ~app'.crashed =>
                 \A k \in DOMAIN PolledBy(c) :
                     ~InErrorStreak(PolledBy(c)[k]) =>
                         app'._auto_retry_attempts[PolledBy(c)[k].id] = 0
       /\ \A k \in DOMAIN app'.torrents :
             LET t == app'.torrents[k]
             IN  app._auto_retry_attempts[t.id] > 0 /\ app'._auto_retry_attempts[t.id] = 0
                     => ~InErrorStreak(t)]_vars

\* ------------------------------------------------------------------------
\* C27
\* ------------------------------------------------------------------------
\* the coroutine of context c resumes from an RPC that succeeded, at pc
Succeeded(c, pc) == ctx[c].pc = pc /\ ctx[c].rpc.at = "done" /\ ctx[c].rpc.res = "ok"

InstallTried == sup.pc = "install" \/ sup.ok # None

\* the start routine went on past line 164
TowardsLaunch ==
    \/ sup.pc \in {"ports", "settings", "launch", "polling", "raised"}
    \/ sup.picks > 0 \/ sup.writes > 0 \/ sup.spawned

\* C28: an installation is attempted only when the binary was not found,
\* auto-install is enabled and a package manager was detected; after it the
\* start routine goes on towards the launch only if the installation
\* succeeded and the binary is now found, and otherwise returns with no port
\* picked, no settings written and no process spawned
C28_InstallGatesLaunch ==
    InstallTried =>
        /\ ~sup.found /\ sup.install_missing /\ sup.mgr # None
        /\ TowardsLaunch => sup.ok = Some(TRUE) /\ sup.found_after
        /\ (sup.pc # "install" /\ ~(sup.ok = Some(TRUE) /\ sup.found_after)) =>
               /\ sup.pc \in {"called", "returned"}
               /\ sup.picks = 0 /\ sup.writes = 0 /\ ~sup.spawned

C28_Witness == InstallTried /\ sup.ok = Some(TRUE) /\ sup.found_after /\ sup.spawned

\* C29: the steps run are the first steps of the manager's list, in the
\* listed order; a step is run only if every earlier one exited zero, a
\* non-zero exit is followed at once by the report of failure, and success
\* is reported only when every listed step has run and exited zero
C29_FirstFailureEndsChain ==
    sup.mgr # None =>
        LET steps == install_steps(Val(sup.mgr))
            n == Len(sup.ran)
        IN  /\ n <= Len(steps)
            /\ \A k \in 1..n : sup.ran[k].step = steps[k]
            /\ \A k \in 1..(n - 1) : sup.ran[k].code = 0
            /\ (n > 0 /\ sup.ran[n].code # 0) => sup.ok = Some(FALSE) /\ sup.pc # "install"
            /\ sup.ok = Some(TRUE) =>
                   n = Len(steps) /\ \A k \in 1..n : sup.ran[k].code = 0

C29_Witness ==
    /\ sup.mgr = Some("apt-get") /\ sup.ok = Some(FALSE) /\ sup.pc = "returned"
    /\ Len(sup.ran) = 1 /\ sup.ran[1].code # 0

\* C30: once the process is launched, the polling of the RPC port ends, and
\* maybe_start_daemon returns without raising, with a connect accepted or
\* with the deadline reached
C30_ReadinessPollingTerminates ==
    (sup.pc = "polling") ~>
        (sup.pc = "returned" /\ sup.spawned /\ (sup.accepted \/ ~(sup.now < Timeout)))

C30_Witness ==
    sup.pc = "returned" /\ sup.spawned /\ ~sup.accepted /\ ~(sup.now < Timeout)

\* C31: when the daemon is launched, the chosen RPC port is the rpc-port
\* written to settings.json, the value of config.rpc.port, and the port
\* probed for readiness; the config was saved exactly if the chosen port
\* differs from the port configured before
C31_OneRpcPortThroughout ==
    sup.spawned =>
        /\ sup.file.data["rpc-port"] = JInt(sup.chosen_rpc_port)
        /\ sup.rpc_port = sup.chosen_rpc_port
        /\ sup.probe_port = sup.chosen_rpc_port
        /\ sup.saves = (IF sup.chosen_rpc_port # sup.rpc_port0 THEN 1 ELSE 0)

\* launched on another port than the configured one, which was occupied
C31_Witness ==
    /\ sup.spawned /\ sup.pc = "returned"
    /\ sup.chosen_rpc_port # sup.rpc_port0 /\ sup.saves = 1

\* C38: the RPC port and the peer port picked for one launch differ
C38_RpcAndPeerPortsDiffer ==
    sup.picks = 2 => sup.chosen_rpc_port # sup.chosen_peer_port

\* 0.6 * 1.6^(k-1) seconds in microseconds (whole up to the first value
\* above the cap, rounded down beyond it)
RECURSIVE Geometric(_)
Geometric(k) == IF k <= 1 THEN 600000 ELSE (Geometric(k - 1) * 16) \div 10

\* min(0.6 * 1.6^(k-1), 5.0) seconds in microseconds
CappedWait(k) == IF Geometric(k) < 5000000 THEN Geometric(k) ELSE 5000000

\* C32: the wait before the k-th retry of a call is min(0.6 * 1.6^(k-1), 5.0)
\* seconds, not below any earlier wait of the call and not above 5 s, and a
\* wait is made only when an attempt is left
C32_BackoffSchedule ==
    rpcPc = "sleep" =>
        LET k == rpcAttempt + 1
        IN  /\ rpcDelay = CappedWait(k)
            /\ \A j \in 1..k : CappedWait(j) <= rpcDelay
            /\ rpcDelay <= 5000000
            /\ k < rpcAttempts

\* the wait before the sixth retry is the capped one
C32_Witness == rpcPc = "sleep" /\ rpcAttempt + 1 = 6 /\ rpcDelay = 5000000

\* C33: a step of the mounted application that changes a preference (the
\* refresh interval, the sort column or direction, a filter) ends with the
\* same preferences in the config file
C33_PreferencesPersisted ==
    [][(app.mounted /\ ui_prefs(app') # ui_prefs(app)) =>
           app'.file_ui = ui_payload(ui_prefs(app'))]_vars

C40_FiltersWithinCycle ==
    /\ app.status_filter_value \in {"any", "active", "paused", "error"}
    /\ app.progress_filter_value \in {"any", "done", "under50"}
    /\ ~app.crashed

\* the polled torrents that satisfy the name, status and progress filters
Matching == {app.torrents[k].id : k \in {j \in DOMAIN app.torrents :
                                            passes_filter(app, app.torrents[j])}}

\* C35: the rows of the table after a render are the polled torrents that
\* satisfy the active filters; no row when none satisfies them
C35_TableShowsMatchingSet == app.rows = Matching

\* C36: a torrent whose first polled snapshot was at 100% gets no
\* 'completed' notification and at most one automatic verify RPC; when no
\* refresh cycle is in flight it is marked complete and has got its verify
\* RPC
C36_BornCompleteVerifiedNotAnnounced ==
    \A i \in obs.born_full :
        /\ obs.completed_notes[i] = 0
        /\ obs.verify_rpcs[i] <= 1
        /\ AllIdle => i \in app._completed_ids /\ obs.verify_rpcs[i] = 1

\* the tracking state of the application
Tracking(a) == <<a._completed_ids, a._user_paused, a._auto_started>>

\* C37: the step in which an operator command resumes from its failed stop,
\* start or remove RPC leaves the completed, user-paused and auto-started
\* sets as they were
C37_FailedCommandKeepsTracking ==
    [][\A c \in Contexts :
          (/\ ctx[c].pc \in {"toggle_stop", "toggle_start", "remove"}
           /\ ctx[c].rpc.at = "done" /\ ctx[c].rpc.res # "ok"
           /\ ctx'[c] # ctx[c])
          => Tracking(app') = Tracking(app)]_vars

\* a stop, a start and a removal have failed, and the torrents they were
\* for are still tracked
C37_Witness ==
    /\ obs.cmd_errors = {"stop", "start", "remove"}
    /\ app._completed_ids # {} /\ app._user_paused # {} /\ app._auto_started # {}

\* the screens on the stack that were opened by _show_modal_with_callback
CountedModals ==
    Cardinality({k \in DOMAIN app.screen_stack : app.screen_stack[k] # "HelpScreen"})

\* C39: the modal depth counter is never negative and equals the number of
\* open screens that were opened through _show_modal_with_callback
C39_DepthCountsOpenModals ==
    /\ app._modal_depth >= 0
    /\ app._modal_depth = CountedModals

\* after a dismissal whose callback raised, the next modal screen is open
C39_Witness ==
    /\ obs.dismiss_error /\ app._modal_depth = 1
    /\ app.screen_stack = <<"FilterScreen">>

====
